---- MODULE Spec2Model ----
(***************************************************************************)
(* Model of the tool pens of rnote-engine (crates/rnote-engine/src/pens/   *)
(* tools.rs): the Tools Idle/Active state machine, the LaserStore fade     *)
(* model and the per-tool gesture structs.                                 *)
(*                                                                         *)
(* Number representation.  Instants and durations are integers in          *)
(* milliseconds.  Document coordinates are integers in tenths of a unit    *)
(* (so Y_OFFSET_THRESHOLD = 0.1 is 1 and SNAP_START_POS_DIST = 10. is      *)
(* 100).  Zoom factors are integers in thousandths (ZoomUnit = 1.0).       *)
(***************************************************************************)
EXTENDS Integers, Sequences, FiniteSets, TLC

VARIABLES
    state,               \* Tools.state : ToolsState
    pens_config,         \* engine_view.pens_config (tools_config.style, verticalspace_tool_config)
    verticalspace_tool,  \* Tools.verticalspace_tool
    offsetcamera_tool,   \* Tools.offsetcamera_tool
    zoom_tool,           \* Tools.zoom_tool
    laser_tool,          \* Tools.laser_tool
    laser_store,         \* engine_view.store.laser_store
    store_strokes,       \* engine_view.store: position of every stroke and of its cached image
    camera,              \* engine_view.camera
    document,            \* engine_view.document (whether positions snap to the grid)
    animation,           \* engine_view.animation
    clock,               \* the wall clock read by Instant::now() / Instant::elapsed()
    render_tasks,        \* engine_view.tasks_tx: the viewport re-renders sent and not yet done
    call,                \* the last call made on Tools: its inputs, its result and its requests
    history,             \* what the gesture in progress has done so far
    ruler,               \* ToolHolder.current_tool: the Ruler (tools/toolholder.rs)
    dialog,              \* the create-folder dialog of the workspace browser, once opened
    filesystem           \* the paths that exist

vars == <<state, pens_config, verticalspace_tool, offsetcamera_tool, zoom_tool,
          laser_tool, laser_store, store_strokes, camera, document, animation,
          clock, render_tasks, call, history, ruler, dialog, filesystem>>

tool_vars == <<verticalspace_tool, offsetcamera_tool, zoom_tool, laser_tool>>

-----------------------------------------------------------------------------
(* Bounds of the model *)

TickMs == 750            \* the wall clock advances in steps of TickMs
MaxTime == 3750          \* the wall clock stops advancing once it reached MaxTime
MaxPaths == 2            \* at most MaxPaths laser paths are kept in a model run
MaxPathLen == 3          \* at most MaxPathLen elements per laser path
MaxBuffer == 1           \* at most MaxBuffer elements a path builder holds back
FormatWidth == 1000      \* document.format.width(), in tenths
FormatHeight == 2000     \* document.format.height(), in tenths
GridSize == 50           \* the document's snap grid, in tenths
MaxStrokeY == 4600       \* strokes are not pushed below this y, in tenths
MaxCameraOffset == 400   \* camera.set_offset clamps each component to [-Max, Max]
MaxZoomEvents == 4       \* at most MaxZoomEvents pen events in a run of SpecZoom
MaxSpaceEvents == 5      \* at most MaxSpaceEvents pen events in a run of SpecSpace
DrawTickMs == 1          \* the time between two draws of the laser strokes
MaxDrawTime == 2100      \* the laser strokes are drawn until then
AngleStep == 34034       \* the ruler angles asked for are multiples of it (19.5 degrees)
MaxAngleSteps == 20      \* at most that many steps either way (390 degrees)
MaxBoundsEvents == 3     \* a run of SpecBounds has at most MaxBoundsEvents pen events
MaxRenderTasks == 2      \* at most MaxRenderTasks viewport re-renders are in flight

-----------------------------------------------------------------------------
(* Program constants *)

FULL_FADE_DURATION == 1500      \* LaserStore::FULL_FADE_DURATION, ms
LaserTool_FULL_FADE_DURATION == 1500   \* LaserTool::FULL_FADE_DURATION, ms
OUTER_STROKE_WIDTH == 60        \* LaserTool::OUTER_STROKE_WIDTH = 6.0, in tenths
CURSOR_SIZE == 160              \* OffsetCameraTool::CURSOR_SIZE = (16.0, 16.0), in tenths
CURSOR_STROKE_WIDTH == 20       \* OffsetCameraTool:: and ZoomTool::CURSOR_STROKE_WIDTH = 2.0
CURSOR_RADIUS == 40             \* ZoomTool::CURSOR_RADIUS = 4.0, in tenths
Y_OFFSET_THRESHOLD == 1         \* VerticalSpaceTool::Y_OFFSET_THRESHOLD = 0.1, in tenths
SNAP_START_POS_DIST == 100      \* VerticalSpaceTool::SNAP_START_POS_DIST = 10., in tenths
ZoomUnit == 1000                \* the zoom factor 1.0, in thousandths
ZOOM_MIN == 200                 \* Camera::ZOOM_MIN = 0.2
ZOOM_MAX == 6000                \* Camera::ZOOM_MAX = 6.0
DragZoomDivisor == 2000         \* 1 / Camera::DRAG_ZOOM_MAGN_ZOOM_FACTOR (0.005 per unit), in tenths

-----------------------------------------------------------------------------
(* Values *)

ToolStyles == {"VerticalSpace", "OffsetCamera", "Zoom", "Laser"}
ToolsStates == {"Idle", "Active"}
EventKinds == {"Down", "Up", "Proximity", "KeyPressed", "Cancel", "Text"}
StrokeKeys == {1, 2, 3, 4}

\* Option<T>: None is the empty sequence, Some(x) the one-element sequence.
None == <<>>
Some(x) == <<x>>
IsSome(o) == o # <<>>

Abs(n) == IF n < 0 THEN -n ELSE n
Min(a, b) == IF a < b THEN a ELSE b
Max(a, b) == IF a > b THEN a ELSE b
Clamp(v, lo, hi) == Max(lo, Min(hi, v))
\* a / b rounded to the nearest integer, for b > 0
RoundDiv(a, b) == (2 * a + b) \div (2 * b)

VecZeros == <<0, 0>>
VecSub(a, b) == <<a[1] - b[1], a[2] - b[2]>>

\* An input element: a position in document coordinates and a pressure.
Element(pos, pressure) == [pos |-> pos, pressure |-> pressure]
NoElement == Element(VecZeros, 0)

PenEvent(kind, element) == [kind |-> kind, element |-> element]

\* The pen events over the elements E: Down, Up and Proximity carry an element.
PenEvents(E) ==
    {PenEvent(k, e) : k \in {"Down", "Up", "Proximity"}, e \in E}
        \cup {PenEvent(k, NoElement) : k \in {"KeyPressed", "Cancel", "Text"}}

-----------------------------------------------------------------------------
(* WidgetFlags and EventResult *)

WidgetFlagsDefault == [redraw |-> FALSE, resize |-> FALSE, store_modified |-> FALSE]

FlagsOr(a, b) ==
    [redraw |-> a.redraw \/ b.redraw,
     resize |-> a.resize \/ b.resize,
     store_modified |-> a.store_modified \/ b.store_modified]

EventResult(handled, propagate, progress) ==
    [handled |-> handled, propagate |-> propagate, progress |-> progress]

-----------------------------------------------------------------------------
(* LaserStore *)

LaserStoreDefault(now) == [stroke_paths |-> <<>>, stroke_update_time |-> now]

\* Instant::elapsed(): the time since `t`, zero when `t` is later than the clock.
Elapsed(t, wall) == IF wall >= t THEN wall - t ELSE 0

IsFadedStrict(store, wall) ==
    Elapsed(store.stroke_update_time, wall) > FULL_FADE_DURATION

IsFaded(store, wall) ==
    Elapsed(store.stroke_update_time, wall) >= FULL_FADE_DURATION

NewStrokeNeverClears(store, element, now, wall) ==
    [stroke_paths |-> Append(store.stroke_paths, <<element>>),
     stroke_update_time |-> now]

NewStroke(store, element, now, wall) ==
    LET kept == IF IsFaded(store, wall) THEN <<>> ELSE store.stroke_paths
    IN  [stroke_paths |-> Append(kept, <<element>>),
         stroke_update_time |-> now]

\* BuilderProgress<Segment>; a segment is modelled by the element it ends at.
InProgress == [kind |-> "InProgress", segments |-> <<>>]
EmitContinue(segments) == [kind |-> "EmitContinue", segments |-> segments]
Finished(segments) == [kind |-> "Finished", segments |-> segments]
NoProgress == [kind |-> "None", segments |-> <<>>]

LaserUpdateKeepsTime(store, progress, now) ==
    LET paths == store.stroke_paths
        n == Len(paths)
    IN  [stroke_paths |->
             IF n > 0 /\ progress.kind \in {"EmitContinue", "Finished"}
             THEN [paths EXCEPT ![n] = paths[n] \o progress.segments]
             ELSE paths,
         stroke_update_time |->
             IF progress.kind = "InProgress" THEN store.stroke_update_time ELSE now]

LaserUpdateFirstPath(store, progress, now) ==
    LET paths == store.stroke_paths
        n == Len(paths)
    IN  [stroke_paths |->
             IF n > 0 /\ progress.kind \in {"EmitContinue", "Finished"}
             THEN [paths EXCEPT ![1] = paths[1] \o progress.segments]
             ELSE paths,
         stroke_update_time |-> IF n > 0 THEN now ELSE store.stroke_update_time]

LaserUpdateNewPath(store, progress, now) ==
    [stroke_paths |->
         IF store.stroke_paths # <<>> /\ progress.kind \in {"EmitContinue", "Finished"}
         THEN Append(store.stroke_paths, progress.segments)
         ELSE store.stroke_paths,
     stroke_update_time |-> now]

LaserUpdate(store, progress, now) ==
    LET paths == store.stroke_paths
        n == Len(paths)
    IN  [stroke_paths |->
             IF n > 0 /\ progress.kind \in {"EmitContinue", "Finished"}
             THEN [paths EXCEPT ![n] = paths[n] \o progress.segments]
             ELSE paths,
         stroke_update_time |-> now]

OpacityTruncated(store, wall) ==
    ((LaserTool_FULL_FADE_DURATION
         - Min(Elapsed(store.stroke_update_time, wall), LaserTool_FULL_FADE_DURATION)) * 255)
        \div LaserTool_FULL_FADE_DURATION

\* LaserTool::draw_on_doc: the opacity of every stroke drawn, in 0..255:
\* ((1 - transparency) * 255).round(), with transparency the elapsed time over
\* LaserTool::FULL_FADE_DURATION clamped to [0, 1].
Opacity(store, wall) ==
    RoundDiv((LaserTool_FULL_FADE_DURATION
                 - Min(Elapsed(store.stroke_update_time, wall),
                       LaserTool_FULL_FADE_DURATION)) * 255,
             LaserTool_FULL_FADE_DURATION)

\* LaserTool::draw_on_doc: every path of the store is stroked, twice (outer and
\* inner), with the one opacity.
DrawOnDoc(store, wall) ==
    {[path |-> store.stroke_paths[i], layer |-> layer,
      opacity |-> Opacity(store, wall)] :
        i \in 1..Len(store.stroke_paths), layer \in {"outer", "inner"}}

-----------------------------------------------------------------------------
(* Path builders (rnote_compose::builders): started with an element, they   *)
(* consume pen events and yield a BuilderProgress.  A builder holds back at *)
(* most MaxBuffer elements.                                                 *)

\* PenPath{Simple,Curved,Modeled}Builder::start(element, now): whatever the
\* configured builder type, a builder that holds nothing back yet.
BuilderStart(element) == [buffer |-> <<>>]

\* The outcomes <<progress, builder after>> of Buildable::handle_event: on a Down
\* the builder emits what it holds with the new element, or holds the element back
\* (the simple builder always emits); an Up finishes with all of it.
BuilderHandleEvent(builder, event) ==
    CASE event.kind = "Down" ->
            LET buf == Append(builder.buffer, event.element)
            IN  {<<EmitContinue(buf), [builder EXCEPT !.buffer = <<>>]>>}
                  \cup (IF Len(buf) <= MaxBuffer
                        THEN {<<InProgress, [builder EXCEPT !.buffer = buf]>>}
                        ELSE {})
      [] event.kind = "Up" ->
            {<<Finished(Append(builder.buffer, event.element)),
               [builder EXCEPT !.buffer = <<>>]>>}
      [] event.kind = "Cancel" ->
            {<<Finished(<<>>), [builder EXCEPT !.buffer = <<>>]>>}
      [] OTHER -> {<<InProgress, builder>>}

-----------------------------------------------------------------------------
(* Camera, Document and StrokeStore as far as the tools use them *)

CameraDefault == [offset |-> VecZeros, zoom |-> ZoomUnit]

\* camera.total_zoom()
TotalZoom(cam) == cam.zoom

\* camera.transform().transform_point(p): document to surface coordinates.
Transform(cam, p) ==
    <<(p[1] * TotalZoom(cam)) \div ZoomUnit - cam.offset[1],
      (p[2] * TotalZoom(cam)) \div ZoomUnit - cam.offset[2]>>

\* camera.set_offset(offset, document): the offset is clamped, never rejected.
SetOffset(cam, offset) ==
    [cam EXCEPT !.offset = <<Clamp(offset[1], -MaxCameraOffset, MaxCameraOffset),
                             Clamp(offset[2], -MaxCameraOffset, MaxCameraOffset)>>]
SetOffsetFlags == [WidgetFlagsDefault EXCEPT !.redraw = TRUE]

\* camera.zoom_w_timeout(zoom, tasks_tx): the total zoom becomes `zoom` at once.
ZoomWTimeout(cam, zoom) == [cam EXCEPT !.zoom = zoom]
ZoomWTimeoutFlags == [WidgetFlagsDefault EXCEPT !.redraw = TRUE]

\* camera.nudge_w_pos(pos, document): the pointer positions of the model are in view.
NudgeWPos(cam, pos) == cam
NudgeWPosFlags == WidgetFlagsDefault

\* document.resize_autoexpand(..) and document.expand_autoexpand(..)
ResizeAutoexpandFlags == [WidgetFlagsDefault EXCEPT !.resize = TRUE]
ExpandAutoexpandFlags == [WidgetFlagsDefault EXCEPT !.resize = TRUE]

\* store.record(now)
RecordFlags == [WidgetFlagsDefault EXCEPT !.redraw = TRUE]

\* document.snap_position(v)[1]: the y component snapped to the grid when snapping is on.
SnapPositionY(v) ==
    IF document.snap_positions THEN RoundDiv(v[2], GridSize) * GridSize ELSE v[2]

\* store.keys_between(y_start, y_end, limit_x, limit_vertical, limit_horizontal)
KeysBetween(strokes, y_start, y_end, limit_x, limit_vertical, limit_horizontal) ==
    {k \in StrokeKeys :
        /\ strokes[k].y >= y_start
        /\ limit_horizontal => strokes[k].y <= y_end
        /\ limit_vertical => (strokes[k].x >= limit_x[1] /\ strokes[k].x <= limit_x[2])}

\* store.translate_strokes(keys, (0, dy)) and store.translate_strokes_images(keys, (0, dy))
TranslateStrokes(strokes, keys, dy) ==
    [k \in StrokeKeys |->
        IF k \in keys THEN [strokes[k] EXCEPT !.y = @ + dy] ELSE strokes[k]]
TranslateStrokesImages(strokes, keys, dy) ==
    [k \in StrokeKeys |->
        IF k \in keys THEN [strokes[k] EXCEPT !.image_y = @ + dy] ELSE strokes[k]]

-----------------------------------------------------------------------------
(* The gesture structs *)

VerticalSpaceToolDefault ==
    [start_pos_y |-> 0, pos_y |-> 0, limit_x |-> None, strokes_below |-> {}]
OffsetCameraToolDefault == [start |-> VecZeros]
ZoomToolDefault == [start_surface_coord |-> VecZeros, current_surface_coord |-> VecZeros]
LaserToolDefault == [path_builder |-> None]

\* (Idle, Down), VerticalSpace: the struct written by the Down that starts the gesture.
VerticalSpaceStart(element) ==
    LET pos_y == element.pos[2]
        pos_x == element.pos[1]
        limit_h == pens_config.limit_movement_horizontal_borders
        limit_v == pens_config.limit_movement_vertical_borders
        y_max == ((pos_y \div FormatHeight) + 1) * FormatHeight
        page_number_hor == pos_x \div FormatWidth
        limit_x == <<page_number_hor * FormatWidth, (page_number_hor + 1) * FormatWidth>>
    IN  [start_pos_y |-> pos_y,
         pos_y |-> pos_y,
         limit_x |-> IF limit_v THEN Some(limit_x) ELSE None,
         strokes_below |-> KeysBetween(store_strokes, pos_y, y_max, limit_x, limit_v, limit_h)]

\* (Idle, Down), Zoom
ZoomStart(element) ==
    [start_surface_coord |-> Transform(camera, element.pos),
     current_surface_coord |-> Transform(camera, element.pos)]

VerticalSpaceYOffsetNoSnapBack(tool, element) ==
    SnapPositionY(VecSub(element.pos, <<0, tool.pos_y>>))

\* (Active, Down), VerticalSpace: the candidate y offset.
VerticalSpaceYOffset(tool, element) ==
    IF Abs(element.pos[2] - tool.start_pos_y) < SNAP_START_POS_DIST
    THEN tool.start_pos_y - tool.pos_y
    ELSE SnapPositionY(VecSub(element.pos, <<0, tool.pos_y>>))

VerticalSpaceTrackFromStart(tool, y_offset) ==
    [tool EXCEPT !.pos_y = tool.start_pos_y + y_offset]

\* (Active, Down), VerticalSpace: the applied offset is added to the tracked y.
VerticalSpaceTrack(tool, y_offset) == [tool EXCEPT !.pos_y = @ + y_offset]

VerticalSpaceAffectedNow(tool) ==
    {k \in StrokeKeys : store_strokes[k].y >= tool.pos_y}

\* (Active, Down) and (Active, Up), VerticalSpace: the strokes the gesture acts on.
VerticalSpaceAffected(tool) == tool.strokes_below

VerticalSpaceAppliesAtThreshold(y_offset) == Abs(y_offset) >= Y_OFFSET_THRESHOLD

\* (Active, Down), VerticalSpace: whether the candidate offset is applied.
VerticalSpaceApplies(y_offset) == Abs(y_offset) > Y_OFFSET_THRESHOLD

\* (Active, Down), Zoom: the target zoom, from the vertical surface delta to the
\* tracked current position.
ZoomTargetFromStart(cam, tool, element) ==
    LET dy == Transform(cam, element.pos)[2] - tool.start_surface_coord[2]
    IN  (TotalZoom(cam) * (DragZoomDivisor - dy)) \div DragZoomDivisor

ZoomTarget(cam, tool, element) ==
    LET dy == Transform(cam, element.pos)[2] - tool.current_surface_coord[2]
    IN  (TotalZoom(cam) * (DragZoomDivisor - dy)) \div DragZoomDivisor

ZoomAlwaysInRange(new_zoom) == new_zoom > 0

ZoomInRange(new_zoom) == new_zoom >= ZOOM_MIN /\ new_zoom <= ZOOM_MAX

\* (Active, Down), Zoom: the camera after an accepted zoom: zoomed, then moved so
\* that start_surface_coord keeps its surface position.
ZoomApply(cam, tool, new_zoom) ==
    LET total_zoom_old == TotalZoom(cam)
        s == tool.start_surface_coord
        new_camera_offset ==
            <<((cam.offset[1] + s[1]) * new_zoom) \div total_zoom_old - s[1],
              ((cam.offset[2] + s[2]) * new_zoom) \div total_zoom_old - s[2]>>
    IN  SetOffset(ZoomWTimeout(cam, new_zoom), new_camera_offset)

\* (Active, Down), OffsetCamera
OffsetCameraApply(cam, tool, element) ==
    LET offset == VecSub(Transform(cam, element.pos), Transform(cam, tool.start))
    IN  SetOffset(cam, VecSub(cam.offset, offset))

ResetAllStyles(st, vs, oc, zm, ls) ==
    [verticalspace_tool |-> VerticalSpaceToolDefault,
     offsetcamera_tool |-> OffsetCameraToolDefault,
     zoom_tool |-> ZoomToolDefault,
     laser_tool |-> LaserToolDefault]

\* Tools::reset: the four gesture structs after it, under the configured style `st`.
Reset(st, vs, oc, zm, ls) ==
    [verticalspace_tool |->
         IF st = "VerticalSpace" THEN [vs EXCEPT !.start_pos_y = 0, !.pos_y = 0] ELSE vs,
     offsetcamera_tool |->
         IF st = "OffsetCamera" THEN [oc EXCEPT !.start = VecZeros] ELSE oc,
     zoom_tool |->
         IF st = "Zoom"
         THEN [zm EXCEPT !.start_surface_coord = VecZeros,
                         !.current_surface_coord = VecZeros]
         ELSE zm,
     laser_tool |->
         IF st = "Laser" THEN [ls EXCEPT !.path_builder = None] ELSE ls]

-----------------------------------------------------------------------------
(* bounds_on_doc: the box, in document coordinates, a tool's decoration is    *)
(* drawn in.                                                                 *)

Aabb(mins, maxs) == [mins |-> mins, maxs |-> maxs]

\* Aabb::new_positive
AabbNewPositive(a, b) ==
    Aabb(<<Min(a[1], b[1]), Min(a[2], b[2])>>, <<Max(a[1], b[1]), Max(a[2], b[2])>>)

\* Aabb::extend_by
AabbExtendBy(box, v) ==
    Aabb(<<box.mins[1] - v, box.mins[2] - v>>, <<box.maxs[1] + v, box.maxs[2] + v>>)

\* A length on the surface, in document coordinates: length / camera.total_zoom().
OnDoc(cam, length) == (length * ZoomUnit) \div TotalZoom(cam)

\* camera.transform().inverse().transform_point(p): surface to document coordinates.
InverseTransform(cam, p) ==
    <<OnDoc(cam, p[1] + cam.offset[1]), OnDoc(cam, p[2] + cam.offset[2])>>

\* camera.size(): the size of the surface.
CameraSize == <<8000, 6000>>

\* camera.viewport(): the part of the document on the surface.
Viewport(cam) ==
    Aabb(InverseTransform(cam, VecZeros), InverseTransform(cam, CameraSize))

\* The paths merged: path.bounds() of every path, reduced with Aabb::merged.
PathsBounds(paths) ==
    LET at == {<<i, j>> \in (1..Len(paths)) \X (1..MaxPathLen) : j <= Len(paths[i])}
        xs == {paths[ij[1]][ij[2]].pos[1] : ij \in at}
        ys == {paths[ij[1]][ij[2]].pos[2] : ij \in at}
        lo(S) == CHOOSE v \in S : \A w \in S : v <= w
        hi(S) == CHOOSE v \in S : \A w \in S : v >= w
    IN  Aabb(<<lo(xs), lo(ys)>>, <<hi(xs), hi(ys)>>)

\* LaserTool::bounds_on_doc
LaserToolBoundsOnDoc(store, cam, wall) ==
    IF IsFaded(store, wall) THEN None
    ELSE IF store.stroke_paths = <<>> THEN None
    ELSE Some(AabbExtendBy(PathsBounds(store.stroke_paths),
                           OnDoc(cam, OUTER_STROKE_WIDTH)))

\* VerticalSpaceTool::bounds_on_doc
VerticalSpaceToolBoundsOnDoc(tool, cam) ==
    LET viewport == Viewport(cam)
    IN  Some(AabbNewPositive(<<viewport.mins[1], tool.start_pos_y>>,
                             <<viewport.maxs[1], tool.pos_y>>))

\* OffsetCameraTool::bounds_on_doc
OffsetCameraToolBoundsOnDoc(tool, cam) ==
    LET half == OnDoc(cam, (CURSOR_SIZE + CURSOR_STROKE_WIDTH) \div 2)
    IN  Some(AabbExtendBy(Aabb(tool.start, tool.start), half))

\* ZoomTool::bounds_on_doc
ZoomToolBoundsOnDoc(tool, cam) ==
    Some(AabbExtendBy(AabbNewPositive(InverseTransform(cam, tool.start_surface_coord),
                                      InverseTransform(cam, tool.current_surface_coord)),
                      OnDoc(cam, CURSOR_RADIUS + CURSOR_STROKE_WIDTH \div 2)))

BoundsOnDocByState ==
    CASE state = "Idle" -> None
      [] pens_config.style = "VerticalSpace" ->
            VerticalSpaceToolBoundsOnDoc(verticalspace_tool, camera)
      [] pens_config.style = "OffsetCamera" ->
            OffsetCameraToolBoundsOnDoc(offsetcamera_tool, camera)
      [] pens_config.style = "Zoom" -> ZoomToolBoundsOnDoc(zoom_tool, camera)
      [] OTHER -> LaserToolBoundsOnDoc(laser_store, camera, clock)

\* Tools::bounds_on_doc
BoundsOnDoc ==
    IF pens_config.style = "Laser"
    THEN LaserToolBoundsOnDoc(laser_store, camera, clock)
    ELSE CASE state = "Idle" -> None
           [] pens_config.style = "VerticalSpace" ->
                 VerticalSpaceToolBoundsOnDoc(verticalspace_tool, camera)
           [] pens_config.style = "OffsetCamera" ->
                 OffsetCameraToolBoundsOnDoc(offsetcamera_tool, camera)
           [] pens_config.style = "Zoom" -> ZoomToolBoundsOnDoc(zoom_tool, camera)
           [] OTHER -> LaserToolBoundsOnDoc(laser_store, camera, clock)

-----------------------------------------------------------------------------
(* The ruler of the tool holder (tools/toolholder.rs).  Its offset is in      *)
(* thousandths of the camera size (OffsetUnit = 1.0), its angle in units of  *)
(* 10 micro-radians.                                                         *)

OffsetUnit == 1000
PiScaled == 314159       \* pi, in units of 10 micro-radians

\* a / b rounded to the nearest integer, halves away from zero (f64::round), for b > 0
RoundAway(a, b) ==
    IF a >= 0 THEN (2 * a + b) \div (2 * b) ELSE -((b - 2 * a) \div (2 * b))

\* x % m of Rust: the remainder has the sign of x, for m > 0
Rem(x, m) == IF x >= 0 THEN x % m ELSE -((-x) % m)

\* angle.to_degrees().round(): whole degrees
ToDegreesRounded(angle) == RoundAway(angle * 180, PiScaled)

\* degrees.to_radians()
ToRadians(degrees) == RoundAway(degrees * PiScaled, 180)

\* Ruler::default()
RulerDefault == [offset |-> <<OffsetUnit \div 2, OffsetUnit \div 2>>, angle |-> 0]

\* n.to_string() of an unsigned integer: its decimal digits, as a sequence.
RECURSIVE U16ToString(_)
U16ToString(n) == IF n < 10 THEN <<n>> ELSE Append(U16ToString(n \div 10), n % 10)

\* f as u16: the cast saturates.
AsU16(f) == Clamp(f, 0, 65535)

FormatAngleUnfolded(r) ==
    U16ToString(AsU16(ToDegreesRounded(r.angle)) % 180)

\* Ruler::format_angle: the label drawn on the ruler.
FormatAngle(r) ==
    LET angle == AsU16(ToDegreesRounded(r.angle)) % 180
    IN  U16ToString(IF angle > 90 THEN 180 - angle ELSE angle)

DragRejects(r, offset) ==
    [ruler |-> IF \A i \in 1..2 : offset[i] >= 0 /\ offset[i] <= OffsetUnit
               THEN [r EXCEPT !.offset = offset]
               ELSE r,
     widget_flags |-> [WidgetFlagsDefault EXCEPT !.redraw = TRUE]]

\* Ruler::drag: the ruler after it and the flags returned.
Drag(r, offset) ==
    [ruler |-> [r EXCEPT !.offset = <<Clamp(offset[1], 0, OffsetUnit),
                                      Clamp(offset[2], 0, OffsetUnit)>>],
     widget_flags |-> [WidgetFlagsDefault EXCEPT !.redraw = TRUE]]

SetAngleUnwrapped(r, angle) ==
    [ruler |-> [r EXCEPT !.angle = ToRadians(ToDegreesRounded(angle))],
     widget_flags |-> [WidgetFlagsDefault EXCEPT !.redraw = TRUE]]

\* Ruler::set_angle: the ruler after it and the flags returned.
SetAngle(r, angle) ==
    [ruler |-> [r EXCEPT !.angle = ToRadians(Rem(ToDegreesRounded(angle), 180))],
     widget_flags |-> [WidgetFlagsDefault EXCEPT !.redraw = TRUE]]

-----------------------------------------------------------------------------
(* The create-folder dialog of the workspace browser (rnote-ui,               *)
(* workspaceactions/createfolder.rs).  A path is the sequence of its          *)
(* components from the root; the text of the entry is a relative or an        *)
(* absolute path.                                                            *)

\* What the user may type: nothing, a name, a nested name, an absolute path.
FolderNames ==
    {[absolute |-> FALSE, parts |-> <<>>],
     [absolute |-> FALSE, parts |-> <<"notes">>],
     [absolute |-> FALSE, parts |-> <<"drafts">>],
     [absolute |-> FALSE, parts |-> <<"drafts", "old">>],
     [absolute |-> TRUE, parts |-> <<"etc">>]}

\* entry_text.is_empty()
IsEmpty(text) == ~text.absolute /\ text.parts = <<>>

\* parent_path.join(text): an absolute text replaces the parent.
Join(parent, text) == IF text.absolute THEN text.parts ELSE parent \o text.parts

\* workspacebrowser.dirlist_file().and_then(|f| f.path()), when a workspace is selected
WorkspacePath == <<"workspace">>

\* The paths that exist at the start, and those other programs create or remove.
InitialFiles == {<<>>, <<"etc">>, WorkspacePath, WorkspacePath \o <<"notes">>}
VolatileFiles == {WorkspacePath \o <<"notes">>, WorkspacePath \o <<"drafts">>}

\* fs_extra::dir::create(path, false) of a path that does not exist: the
\* directory is made if its parent exists, and the call may fail.
DirCreate(files, path) ==
    {[ok |-> FALSE, files |-> files]}
        \cup (IF SubSeq(path, 1, Len(path) - 1) \in files
              THEN {[ok |-> TRUE, files |-> files \cup {path}]}
              ELSE {})

-----------------------------------------------------------------------------
(* Tools::handle_event *)

\* The EventResult of each arm of the match on (state, event).
HandleEventResultByStyle(st, kind) ==
    CASE st = "Idle" /\ kind = "Down" -> EventResult(TRUE, "Stop", "InProgress")
      [] st = "Idle" -> EventResult(FALSE, "Proceed", "Idle")
      [] st = "Active" /\ kind = "Down" -> EventResult(TRUE, "Stop", "InProgress")
      [] st = "Active" /\ kind = "Up" -> EventResult(TRUE, "Stop", "Finished")
      [] st = "Active" /\ kind = "Cancel" ->
            IF pens_config.style = "Laser"
            THEN EventResult(TRUE, "Stop", "Finished")
            ELSE EventResult(FALSE, "Proceed", "InProgress")
      [] OTHER -> EventResult(FALSE, "Proceed", "InProgress")

HandleEventResult(st, kind) ==
    CASE st = "Idle" /\ kind = "Down" -> EventResult(TRUE, "Stop", "InProgress")
      [] st = "Idle" -> EventResult(FALSE, "Proceed", "Idle")
      [] st = "Active" /\ kind = "Down" -> EventResult(TRUE, "Stop", "InProgress")
      [] st = "Active" /\ kind = "Up" -> EventResult(TRUE, "Stop", "Finished")
      [] st = "Active" /\ kind = "Cancel" -> EventResult(TRUE, "Stop", "Finished")
      [] OTHER -> EventResult(FALSE, "Proceed", "InProgress")

\* What a call leaves behind for its caller: the inputs, the returned
\* (EventResult, WidgetFlags), the builder's progress fed to the laser store, and
\* the requests made on the collaborators (animation.claim_frame,
\* regenerate_rendering_in_viewport_threaded, store.record); `faded` is the value
\* returned by a direct call of LaserStore::is_faded; `surface` is the position
\* of the event's element in surface coordinates when the call was made, and
\* `paths_before` the number of laser paths at that time; `translate` is the
\* <<keys, y offset>> passed to store.translate_strokes and
\* store.translate_strokes_images, and `geometry` the keys passed to
\* store.update_geometry_for_strokes; `drawn` is what a call of draw_on_doc
\* stroked, `bounds` what a call of bounds_on_doc returned, `arg` the
\* argument of a call on the ruler and `label` the string format_angle returned;
\* `attempts` are the folder creations a handler of the create-folder dialog
\* tried, each with its outcome, and `logged` the levels of what it logged.
CallRecord(op, event, now, st, progress, result, flags, claim, rerender, checkpoint) ==
    [op |-> op, event |-> event, now |-> now, style |-> pens_config.style,
     state_before |-> st, progress |-> progress, result |-> result,
     widget_flags |-> flags, claim_frame |-> claim, rerender |-> rerender,
     checkpoint |-> checkpoint, faded |-> None,
     surface |-> Transform(camera, event.element.pos),
     paths_before |-> Len(laser_store.stroke_paths),
     translate |-> None, geometry |-> None, drawn |-> {}, arg |-> None,
     bounds |-> None, label |-> None, attempts |-> <<>>, logged |-> <<>>]

NoResult == EventResult(FALSE, "None", "None")
NoEvent == PenEvent("None", NoElement)

OtherCall(op) ==
    CallRecord(op, NoEvent, 0, state, NoProgress, NoResult, WidgetFlagsDefault,
               FALSE, FALSE, FALSE)

\* store.regenerate_rendering_in_viewport_threaded(tasks_tx, ..): one more
\* re-render is sent to the workers.
RegenerateRenderingThreaded(tasks) == tasks + 1

\* What only some arms pass on: the strokes translated and the strokes whose
\* geometry was recomputed.
NoExtras == [translate |-> None, geometry |-> None]

ReturnAwaitingRender(event, now, progress, flags, claim, rerender, checkpoint, extras) ==
    /\ render_tasks' = IF rerender THEN 0 ELSE render_tasks
    /\ call' = [CallRecord("handle_event", event, now, state, progress,
                           HandleEventResult(state, event.kind), flags,
                           claim, rerender, checkpoint)
                   EXCEPT !.translate = extras.translate, !.geometry = extras.geometry]
    /\ animation' = IF claim THEN [frame_claimed |-> TRUE] ELSE animation

\* The return of handle_event and the requests it made: the re-render is sent
\* and not waited for.
ReturnWith(event, now, progress, flags, claim, rerender, checkpoint, extras) ==
    /\ rerender => render_tasks < MaxRenderTasks
    /\ render_tasks' = IF rerender
                       THEN RegenerateRenderingThreaded(render_tasks)
                       ELSE render_tasks
    /\ call' = [CallRecord("handle_event", event, now, state, progress,
                           HandleEventResult(state, event.kind), flags,
                           claim, rerender, checkpoint)
                   EXCEPT !.translate = extras.translate, !.geometry = extras.geometry]
    /\ animation' = IF claim THEN [frame_claimed |-> TRUE] ELSE animation

Return(event, now, progress, flags, claim, rerender, checkpoint) ==
    ReturnWith(event, now, progress, flags, claim, rerender, checkpoint, NoExtras)

DoResetStaysActive ==
    LET r == Reset(pens_config.style, verticalspace_tool, offsetcamera_tool,
                   zoom_tool, laser_tool)
    IN  /\ verticalspace_tool' = r.verticalspace_tool
        /\ offsetcamera_tool' = r.offsetcamera_tool
        /\ zoom_tool' = r.zoom_tool
        /\ laser_tool' = r.laser_tool
        /\ state' = state

\* Tools::reset(): the gesture structs of the configured style, and the state.
DoReset ==
    LET r == Reset(pens_config.style, verticalspace_tool, offsetcamera_tool,
                   zoom_tool, laser_tool)
    IN  /\ verticalspace_tool' = r.verticalspace_tool
        /\ offsetcamera_tool' = r.offsetcamera_tool
        /\ zoom_tool' = r.zoom_tool
        /\ laser_tool' = r.laser_tool
        /\ state' = "Idle"

\* (ToolsState::Idle, PenEvent::Down)
IdleDown(event, now) ==
    /\ state = "Idle" /\ event.kind = "Down"
    /\ CASE pens_config.style = "VerticalSpace" ->
              /\ verticalspace_tool' = VerticalSpaceStart(event.element)
              /\ UNCHANGED <<offsetcamera_tool, zoom_tool, laser_tool, laser_store>>
         [] pens_config.style = "OffsetCamera" ->
              /\ offsetcamera_tool' = [offsetcamera_tool EXCEPT !.start = event.element.pos]
              /\ UNCHANGED <<verticalspace_tool, zoom_tool, laser_tool, laser_store>>
         [] pens_config.style = "Zoom" ->
              /\ zoom_tool' = ZoomStart(event.element)
              /\ UNCHANGED <<verticalspace_tool, offsetcamera_tool, laser_tool, laser_store>>
         [] pens_config.style = "Laser" ->
              /\ laser_store' = NewStroke(laser_store, event.element, now, clock)
              /\ Len(laser_store'.stroke_paths) <= MaxPaths
              /\ laser_tool' = [laser_tool EXCEPT
                                   !.path_builder = Some(BuilderStart(event.element))]
              /\ UNCHANGED <<verticalspace_tool, offsetcamera_tool, zoom_tool>>
    /\ state' = "Active"
    /\ Return(event, now, NoProgress, ResizeAutoexpandFlags, FALSE, FALSE, FALSE)
    /\ UNCHANGED <<pens_config, store_strokes, camera, document>>

\* (ToolsState::Idle, _)
IdleOther(event, now) ==
    /\ state = "Idle" /\ event.kind # "Down"
    /\ Return(event, now, NoProgress, WidgetFlagsDefault, FALSE, FALSE, FALSE)
    /\ UNCHANGED <<state, pens_config, tool_vars, laser_store, store_strokes, camera,
                   document>>

\* (ToolsState::Active, PenEvent::Down), ToolStyle::VerticalSpace
ActiveDownVerticalSpace(event, now) ==
    LET y_offset == VerticalSpaceYOffset(verticalspace_tool, event.element)
        applies == VerticalSpaceApplies(y_offset)
        below == VerticalSpaceAffected(verticalspace_tool)
        moved == TranslateStrokesImages(TranslateStrokes(store_strokes, below, y_offset),
                                        below, y_offset)
        flags == FlagsOr(FlagsOr([WidgetFlagsDefault EXCEPT !.store_modified = applies],
                                 NudgeWPosFlags),
                         ExpandAutoexpandFlags)
    IN  /\ store_strokes' = IF applies THEN moved ELSE store_strokes
        /\ \A k \in StrokeKeys : store_strokes'[k].y \in 0..MaxStrokeY
        /\ verticalspace_tool' =
               IF applies
               THEN VerticalSpaceTrack(verticalspace_tool, y_offset)
               ELSE verticalspace_tool
        /\ camera' = NudgeWPos(camera, event.element.pos)
        /\ ReturnWith(event, now, NoProgress, flags, FALSE, TRUE, FALSE,
                      [NoExtras EXCEPT !.translate =
                           IF applies THEN Some(<<below, y_offset>>) ELSE None])
        /\ UNCHANGED <<offsetcamera_tool, zoom_tool, laser_tool, laser_store>>

\* (ToolsState::Active, PenEvent::Down), ToolStyle::OffsetCamera
ActiveDownOffsetCamera(event, now) ==
    /\ camera' = OffsetCameraApply(camera, offsetcamera_tool, event.element)
    /\ Return(event, now, NoProgress, FlagsOr(SetOffsetFlags, ResizeAutoexpandFlags),
              FALSE, FALSE, FALSE)
    /\ UNCHANGED <<tool_vars, laser_store, store_strokes>>

\* (ToolsState::Active, PenEvent::Down), ToolStyle::Zoom
ActiveDownZoom(event, now) ==
    LET new_surface_coord == Transform(camera, event.element.pos)
        new_zoom == ZoomTarget(camera, zoom_tool, event.element)
        accepted == ZoomInRange(new_zoom)
        flags == IF accepted
                 THEN FlagsOr(FlagsOr(ZoomWTimeoutFlags, SetOffsetFlags),
                              ExpandAutoexpandFlags)
                 ELSE WidgetFlagsDefault
    IN  /\ camera' = IF accepted THEN ZoomApply(camera, zoom_tool, new_zoom) ELSE camera
        /\ zoom_tool' = [zoom_tool EXCEPT !.current_surface_coord = new_surface_coord]
        /\ Return(event, now, NoProgress, flags, FALSE, FALSE, FALSE)
        /\ UNCHANGED <<verticalspace_tool, offsetcamera_tool, laser_tool, laser_store,
                       store_strokes>>

ActiveLaserNoFrame(event, now, flags, rerender) ==
    IF IsSome(laser_tool.path_builder)
    THEN \E out \in BuilderHandleEvent(laser_tool.path_builder[1], event) :
            /\ laser_store' = LaserUpdate(laser_store, out[1], now)
            /\ \A i \in 1..Len(laser_store'.stroke_paths) :
                  Len(laser_store'.stroke_paths[i]) <= MaxPathLen
            /\ IF event.kind = "Up"
               THEN DoReset
               ELSE /\ laser_tool' = [laser_tool EXCEPT !.path_builder = Some(out[2])]
                    /\ UNCHANGED <<state, verticalspace_tool, offsetcamera_tool, zoom_tool>>
            /\ Return(event, now, out[1], flags, FALSE, rerender, FALSE)
    ELSE /\ UNCHANGED laser_store
         /\ IF event.kind = "Up" THEN DoReset ELSE UNCHANGED <<state, tool_vars>>
         /\ Return(event, now, NoProgress, flags, FALSE, rerender, FALSE)

ActiveLaserWithoutBuilder(event, now, flags, rerender) ==
    IF IsSome(laser_tool.path_builder)
    THEN \E out \in BuilderHandleEvent(laser_tool.path_builder[1], event) :
            /\ laser_store' = LaserUpdate(laser_store, out[1], now)
            /\ \A i \in 1..Len(laser_store'.stroke_paths) :
                  Len(laser_store'.stroke_paths[i]) <= MaxPathLen
            /\ IF event.kind = "Up"
               THEN DoReset
               ELSE /\ laser_tool' = [laser_tool EXCEPT !.path_builder = Some(out[2])]
                    /\ UNCHANGED <<state, verticalspace_tool, offsetcamera_tool, zoom_tool>>
            /\ Return(event, now, out[1], flags, event.kind = "Up", rerender, FALSE)
    ELSE /\ laser_store' = LaserUpdate(laser_store, InProgress, now)
         /\ IF event.kind = "Up" THEN DoReset ELSE UNCHANGED <<state, tool_vars>>
         /\ Return(event, now, InProgress, flags, event.kind = "Up", rerender, FALSE)

\* (ToolsState::Active, PenEvent::Down) and (ToolsState::Active, PenEvent::Up),
\* ToolStyle::Laser: the event goes to the builder, if there is one, and the
\* builder's progress to the laser store; an Up also claims a frame.
ActiveLaser(event, now, flags, rerender) ==
    IF IsSome(laser_tool.path_builder)
    THEN \E out \in BuilderHandleEvent(laser_tool.path_builder[1], event) :
            /\ laser_store' = LaserUpdate(laser_store, out[1], now)
            /\ \A i \in 1..Len(laser_store'.stroke_paths) :
                  Len(laser_store'.stroke_paths[i]) <= MaxPathLen
            /\ IF event.kind = "Up"
               THEN DoReset
               ELSE /\ laser_tool' = [laser_tool EXCEPT !.path_builder = Some(out[2])]
                    /\ UNCHANGED <<state, verticalspace_tool, offsetcamera_tool, zoom_tool>>
            /\ Return(event, now, out[1], flags, event.kind = "Up", rerender, FALSE)
    ELSE /\ UNCHANGED laser_store
         /\ IF event.kind = "Up" THEN DoReset ELSE UNCHANGED <<state, tool_vars>>
         /\ Return(event, now, NoProgress, flags, FALSE, rerender, FALSE)

\* (ToolsState::Active, PenEvent::Down)
ActiveDown(event, now) ==
    /\ state = "Active" /\ event.kind = "Down"
    /\ CASE pens_config.style = "VerticalSpace" ->
              ActiveDownVerticalSpace(event, now) /\ UNCHANGED state
         [] pens_config.style = "OffsetCamera" ->
              ActiveDownOffsetCamera(event, now) /\ UNCHANGED state
         [] pens_config.style = "Zoom" ->
              ActiveDownZoom(event, now) /\ UNCHANGED state
         [] pens_config.style = "Laser" ->
              /\ ActiveLaser(event, now, WidgetFlagsDefault, FALSE)
              /\ UNCHANGED <<store_strokes, camera>>
    /\ UNCHANGED <<pens_config, document>>

\* (ToolsState::Active, PenEvent::Up)
ActiveUp(event, now) ==
    /\ state = "Active" /\ event.kind = "Up"
    /\ CASE pens_config.style = "VerticalSpace" ->
              \* update_geometry_for_strokes(strokes_below), record(Instant::now())
              /\ DoReset
              /\ ReturnWith(event, now, NoProgress,
                            FlagsOr(FlagsOr(RecordFlags,
                                            [WidgetFlagsDefault EXCEPT !.store_modified = TRUE]),
                                    ResizeAutoexpandFlags),
                            FALSE, TRUE, TRUE,
                            [NoExtras EXCEPT !.geometry =
                                 Some(VerticalSpaceAffected(verticalspace_tool))])
              /\ UNCHANGED laser_store
         [] pens_config.style = "Laser" ->
              ActiveLaser(event, now, ResizeAutoexpandFlags, TRUE)
         [] OTHER ->
              /\ DoReset
              /\ Return(event, now, NoProgress, ResizeAutoexpandFlags, FALSE, TRUE, FALSE)
              /\ UNCHANGED laser_store
    /\ UNCHANGED <<pens_config, store_strokes, camera, document>>

ActiveCancelRecords(event, now) ==
    /\ state = "Active" /\ event.kind = "Cancel"
    /\ DoReset
    /\ ReturnWith(event, now, NoProgress,
                  IF pens_config.style = "VerticalSpace"
                  THEN FlagsOr(FlagsOr(RecordFlags,
                                       [WidgetFlagsDefault EXCEPT !.store_modified = TRUE]),
                               ResizeAutoexpandFlags)
                  ELSE ResizeAutoexpandFlags,
                  pens_config.style = "Laser", TRUE, pens_config.style = "VerticalSpace",
                  [NoExtras EXCEPT !.geometry =
                       IF pens_config.style = "VerticalSpace"
                       THEN Some(VerticalSpaceAffected(verticalspace_tool))
                       ELSE None])
    /\ UNCHANGED <<pens_config, laser_store, store_strokes, camera, document>>

ActiveCancelClaimsAlways(event, now) ==
    /\ state = "Active" /\ event.kind = "Cancel"
    /\ DoReset
    /\ Return(event, now, NoProgress, ResizeAutoexpandFlags, TRUE, TRUE, FALSE)
    /\ UNCHANGED <<pens_config, laser_store, store_strokes, camera, document>>

ActiveCancelRefreshesStore(event, now) ==
    /\ state = "Active" /\ event.kind = "Cancel"
    /\ DoReset
    /\ Return(event, now, NoProgress, ResizeAutoexpandFlags,
              pens_config.style = "Laser", TRUE, FALSE)
    /\ laser_store' = IF pens_config.style = "Laser"
                      THEN LaserUpdate(laser_store, InProgress, now)
                      ELSE laser_store
    /\ UNCHANGED <<pens_config, store_strokes, camera, document>>

\* (ToolsState::Active, PenEvent::Cancel)
ActiveCancel(event, now) ==
    /\ state = "Active" /\ event.kind = "Cancel"
    /\ DoReset
    /\ Return(event, now, NoProgress, ResizeAutoexpandFlags,
              pens_config.style = "Laser", TRUE, FALSE)
    /\ UNCHANGED <<pens_config, laser_store, store_strokes, camera, document>>

ActiveOtherRerenders(event, now) ==
    /\ state = "Active" /\ event.kind \in {"Proximity", "KeyPressed", "Text"}
    /\ Return(event, now, NoProgress, WidgetFlagsDefault, FALSE, TRUE, FALSE)
    /\ UNCHANGED <<state, pens_config, tool_vars, laser_store, store_strokes, camera,
                   document>>

\* (ToolsState::Active, PenEvent::Proximity | KeyPressed | Text)
ActiveOther(event, now) ==
    /\ state = "Active" /\ event.kind \in {"Proximity", "KeyPressed", "Text"}
    /\ Return(event, now, NoProgress, WidgetFlagsDefault, FALSE, FALSE, FALSE)
    /\ UNCHANGED <<state, pens_config, tool_vars, laser_store, store_strokes, camera,
                   document>>

\* What the gesture in progress has done so far: the strokes it started with,
\* the strokes its Down captured under the VerticalSpace style, the offsets it
\* applied.
NoGesture == [strokes |-> <<>>, captured |-> {}, offsets |-> <<>>]

\* The history after a call of handle_event: a Down in Idle starts a gesture, a
\* reset ends it, a translation of strokes adds its offset.
HistoryAfter(event) ==
    LET start == state = "Idle" /\ event.kind = "Down"
        st == pens_config.style
    IN  IF start
        THEN [strokes |-> store_strokes,
              captured |-> IF st = "VerticalSpace"
                           THEN verticalspace_tool'.strokes_below
                           ELSE {},
              offsets |-> <<>>]
        ELSE IF state' = "Idle" THEN NoGesture
        ELSE IF IsSome(call'.translate)
             THEN [history EXCEPT !.offsets = Append(@, call'.translate[1][2])]
             ELSE history

HandleEvent(event, now) ==
    /\ \/ IdleDown(event, now)
       \/ IdleOther(event, now)
       \/ ActiveDown(event, now)
       \/ ActiveUp(event, now)
       \/ ActiveCancel(event, now)
       \/ ActiveOther(event, now)
    /\ history' = HistoryAfter(event)
    /\ UNCHANGED <<ruler, dialog, filesystem>>

HandleAnimationFrameWhilePaths ==
    LET claim == laser_store.stroke_paths # <<>>
    IN  /\ animation' = [frame_claimed |-> claim]
        /\ call' = CallRecord("handle_animation_frame", NoEvent, 0, state, NoProgress,
                              NoResult, WidgetFlagsDefault, claim, FALSE, FALSE)
        /\ UNCHANGED <<state, pens_config, tool_vars, laser_store, store_strokes, camera,
                       document, clock, render_tasks, history, ruler, dialog, filesystem>>

HandleAnimationFrameAlways ==
    /\ animation' = [frame_claimed |-> TRUE]
    /\ call' = CallRecord("handle_animation_frame", NoEvent, 0, state, NoProgress,
                          NoResult, WidgetFlagsDefault, TRUE, FALSE, FALSE)
    /\ UNCHANGED <<state, pens_config, tool_vars, laser_store, store_strokes, camera,
                   document, clock, render_tasks, history, ruler, dialog, filesystem>>

\* Tools::handle_animation_frame: claims the next frame while the store is unfaded.
HandleAnimationFrame ==
    LET claim == ~IsFaded(laser_store, clock)
    IN  /\ animation' = [frame_claimed |-> claim]
        /\ call' = CallRecord("handle_animation_frame", NoEvent, 0, state, NoProgress,
                              NoResult, WidgetFlagsDefault, claim, FALSE, FALSE)
        /\ UNCHANGED <<state, pens_config, tool_vars, laser_store, store_strokes, camera,
                       document, clock, render_tasks, history, ruler, dialog, filesystem>>

-----------------------------------------------------------------------------
(* The environment: the event loop, the configuration, the wall clock *)

\* The strokes of the document: stroke 1 lies above the pointer positions of the
\* model, stroke 2 below them on the same page, stroke 3 below them on the page
\* to the right, stroke 4 on the page below.
InitialStrokes ==
    [k \in StrokeKeys |->
        CASE k = 1 -> [x |-> 50, y |-> 900, image_y |-> 900]
          [] k = 2 -> [x |-> 50, y |-> 1400, image_y |-> 1400]
          [] k = 3 -> [x |-> 1500, y |-> 1500, image_y |-> 1500]
          [] OTHER -> [x |-> 50, y |-> 2500, image_y |-> 2500]]

\* Tools::default(), LaserStore::default() and the collaborators at construction.
InitWith(styles, limits, snaps, cameras) ==
    /\ state = "Idle"
    /\ pens_config \in [style : styles,
                        limit_movement_horizontal_borders : limits,
                        limit_movement_vertical_borders : limits]
    /\ verticalspace_tool = VerticalSpaceToolDefault
    /\ offsetcamera_tool = OffsetCameraToolDefault
    /\ zoom_tool = ZoomToolDefault
    /\ laser_tool = LaserToolDefault
    /\ clock = 0
    /\ laser_store = LaserStoreDefault(clock)
    /\ store_strokes = InitialStrokes
    /\ camera \in cameras
    /\ document \in [snap_positions : snaps]
    /\ animation = [frame_claimed |-> FALSE]
    /\ render_tasks = 0
    /\ call = OtherCall("init")
    /\ history = NoGesture
    /\ ruler = RulerDefault
    /\ dialog = None
    /\ filesystem = InitialFiles

\* The timestamps an event handled at wall-clock time `wall` may carry: it was
\* taken when the event arrived, at most one tick before it is handled.
EventTimes(wall) == {t \in {wall - TickMs, wall} : t >= 0}

\* The event loop delivers one of the pen events `events`, at a time when the
\* workers have finished every re-render.
PenEventStepOf(events) ==
    \E event \in events, now \in EventTimes(clock) :
        /\ clock + FULL_FADE_DURATION <= MaxTime
        /\ render_tasks = 0
        /\ HandleEvent(event, now)
        /\ UNCHANGED clock

PenEventStep(elements) == PenEventStepOf(PenEvents(elements))

\* The event loop delivers one pen event, whatever re-renders are in flight,
\* and time passes until the next one: a run has at most `events` of them.
TimedPenEventStep(elements, events) ==
    \E event \in PenEvents(elements) :
        /\ clock < events * TickMs
        /\ HandleEvent(event, clock)
        /\ clock' = clock + TickMs

\* The animation scheduler runs a claimed frame.
AnimationFrameStep ==
    /\ animation.frame_claimed
    /\ HandleAnimationFrame

\* A worker finishes a viewport re-render: the cached images are those of the
\* strokes where they are.  Nothing of Tools is touched.
RenderDone ==
    /\ render_tasks > 0
    /\ render_tasks' = render_tasks - 1
    /\ store_strokes' = [k \in StrokeKeys |->
                            [store_strokes[k] EXCEPT !.image_y = store_strokes[k].y]]
    /\ call' = OtherCall("render_done")
    /\ UNCHANGED <<state, pens_config, tool_vars, laser_store, camera, document,
                   animation, clock, history, ruler, dialog, filesystem>>

\* The user selects another tool style.
SetStyle(styles) ==
    /\ \E s \in styles \ {pens_config.style} :
          pens_config' = [pens_config EXCEPT !.style = s]
    /\ call' = OtherCall("set_style")
    /\ UNCHANGED <<state, tool_vars, laser_store, store_strokes, camera, document,
                   animation, clock, render_tasks, history, ruler, dialog, filesystem>>

\* Time passes.
Tick ==
    /\ clock < MaxTime
    /\ clock' = clock + TickMs
    /\ call' = OtherCall("tick")
    /\ UNCHANGED <<state, pens_config, tool_vars, laser_store, store_strokes, camera,
                   document, animation, render_tasks, history, ruler, dialog, filesystem>>

-----------------------------------------------------------------------------
(* Spec: the state machine under all four styles and all events.  The clock  *)
(* stands still and every event carries the same element, at the origin.     *)

SpecElements == {Element(<<0, 0>>, 1)}

Init == InitWith(ToolStyles, {FALSE}, {FALSE}, {CameraDefault})

Next ==
    \/ PenEventStep(SpecElements)
    \/ AnimationFrameStep
    \/ SetStyle(ToolStyles)
    \/ RenderDone

Spec == Init /\ [][Next]_vars

-----------------------------------------------------------------------------
(* SpecLaser: Laser gestures with the wall clock running, with changes to    *)
(* and from the OffsetCamera style.  Every event carries the same element;   *)
(* KeyPressed and Text events are left to Spec.                              *)

LaserElements == {Element(<<0, 0>>, 1)}

\* Of the events that are not handled in Active, Proximity stands for all.
LaserEvents ==
    {e \in PenEvents(LaserElements) : e.kind \in {"Down", "Up", "Cancel", "Proximity"}}

LaserStyles == {"Laser", "OffsetCamera"}

InitLaser == InitWith(LaserStyles, {FALSE}, {FALSE}, {CameraDefault})

NextLaser ==
    \/ PenEventStepOf(LaserEvents)
    \/ AnimationFrameStep
    \/ SetStyle(LaserStyles)
    \/ Tick
    \/ RenderDone

SpecLaser == InitLaser /\ [][NextLaser]_vars

-----------------------------------------------------------------------------
(* SpecStore: the LaserStore alone, its three methods called directly with   *)
(* the wall clock running.  The elements share one position and differ in    *)
(* pressure.                                                                 *)

StoreElements == {Element(<<50, 1000>>, 1), Element(<<50, 1000>>, 2)}

StoreSegments ==
    {<<>>, <<Element(<<50, 1000>>, 1)>>,
     <<Element(<<50, 1000>>, 1), Element(<<50, 1000>>, 2)>>}

StoreProgresses ==
    {InProgress} \cup {EmitContinue(sg) : sg \in StoreSegments}
                 \cup {Finished(sg) : sg \in StoreSegments}

StoreCall(op, element, now, progress, faded) ==
    [CallRecord(op, PenEvent("None", element), now, state, progress, NoResult,
                WidgetFlagsDefault, FALSE, FALSE, FALSE) EXCEPT !.faded = faded]

StorePathsBounded(store) ==
    /\ Len(store.stroke_paths) <= MaxPaths
    /\ \A i \in 1..Len(store.stroke_paths) : Len(store.stroke_paths[i]) <= MaxPathLen

\* laser_store.new_stroke(element, now)
StoreNewStroke ==
    \E element \in StoreElements, now \in EventTimes(clock) :
        /\ laser_store' = NewStroke(laser_store, element, now, clock)
        /\ StorePathsBounded(laser_store')
        /\ call' = StoreCall("new_stroke", element, now, NoProgress, None)
        /\ UNCHANGED <<state, pens_config, tool_vars, store_strokes, camera, document,
                       animation, clock, render_tasks, history, ruler, dialog, filesystem>>

\* laser_store.update(progress, now)
StoreUpdate ==
    \E progress \in StoreProgresses, now \in EventTimes(clock) :
        /\ laser_store' = LaserUpdate(laser_store, progress, now)
        /\ StorePathsBounded(laser_store')
        /\ call' = StoreCall("update", NoElement, now, progress, None)
        /\ UNCHANGED <<state, pens_config, tool_vars, store_strokes, camera, document,
                       animation, clock, render_tasks, history, ruler, dialog, filesystem>>

StoreIsFadedRefreshes ==
    /\ call' = StoreCall("is_faded", NoElement, 0, NoProgress,
                         Some(IsFaded(laser_store, clock)))
    /\ laser_store' = [laser_store EXCEPT !.stroke_update_time = clock]
    /\ UNCHANGED <<state, pens_config, tool_vars, store_strokes, camera,
                   document, animation, clock, render_tasks, history, ruler, dialog, filesystem>>

\* laser_store.is_faded()
StoreIsFaded ==
    /\ call' = StoreCall("is_faded", NoElement, 0, NoProgress,
                         Some(IsFaded(laser_store, clock)))
    /\ UNCHANGED <<state, pens_config, tool_vars, laser_store, store_strokes, camera,
                   document, animation, clock, render_tasks, history, ruler, dialog, filesystem>>

NextStore ==
    \/ StoreNewStroke
    \/ StoreUpdate
    \/ StoreIsFaded
    \/ Tick

InitStore == InitWith({"Laser"}, {FALSE}, {FALSE}, {CameraDefault})

SpecStore == InitStore /\ [][NextStore]_vars

-----------------------------------------------------------------------------
(* SpecZoom: Zoom gestures, with changes to and from the OffsetCamera style.  *)
(* The elements differ in y; the camera starts at several zoom levels.        *)

ZoomElements == {Element(<<0, y>>, 1) : y \in {0, 600, 1400}}

ZoomCameras == {[offset |-> VecZeros, zoom |-> z] : z \in {ZOOM_MIN, ZoomUnit, ZOOM_MAX}}

InitZoom == InitWith({"Zoom", "OffsetCamera"}, {FALSE}, {FALSE}, ZoomCameras)

NextZoom ==
    \/ TimedPenEventStep(ZoomElements, MaxZoomEvents)
    \/ SetStyle({"Zoom", "OffsetCamera"})
    \/ RenderDone

SpecZoom == InitZoom /\ [][NextZoom]_vars

-----------------------------------------------------------------------------
(* SpecSpace: VerticalSpace gestures, with and without the border limits and *)
(* grid snapping.  The elements differ in y: at the line, 30 units below it, *)
(* and 0.1 and 0.3 units further down.                                       *)

SpaceElements == {Element(<<50, y>>, 1) : y \in {1000, 1300, 1301, 1303}}

InitSpace == InitWith({"VerticalSpace"}, BOOLEAN, BOOLEAN, {CameraDefault})

NextSpace ==
    \/ TimedPenEventStep(SpaceElements, MaxSpaceEvents)
    \/ RenderDone

SpecSpace == InitSpace /\ [][NextSpace]_vars

\* SpecLaser with the scheduling of the event loop: time keeps passing and a
\* claimed animation frame is eventually run.
SpecLaserFair == SpecLaser /\ WF_vars(Tick) /\ WF_vars(AnimationFrameStep)

-----------------------------------------------------------------------------
(* SpecDraw: a laser store whose strokes were last updated at time 0 is drawn *)
(* every DrawTickMs until MaxDrawTime.                                        *)

DrawPaths ==
    {<<>>,
     << <<Element(<<50, 1000>>, 1)>> >>,
     << <<Element(<<50, 1000>>, 1), Element(<<50, 1000>>, 2)>>,
        <<Element(<<50, 1000>>, 1)>> >>}

InitDraw ==
    /\ state = "Idle"
    /\ pens_config = [style |-> "Laser",
                      limit_movement_horizontal_borders |-> FALSE,
                      limit_movement_vertical_borders |-> FALSE]
    /\ verticalspace_tool = VerticalSpaceToolDefault
    /\ offsetcamera_tool = OffsetCameraToolDefault
    /\ zoom_tool = ZoomToolDefault
    /\ laser_tool = LaserToolDefault
    /\ clock = 0
    /\ laser_store \in {[stroke_paths |-> ps, stroke_update_time |-> clock] :
                            ps \in DrawPaths}
    /\ store_strokes = InitialStrokes
    /\ camera = CameraDefault
    /\ document = [snap_positions |-> FALSE]
    /\ animation = [frame_claimed |-> FALSE]
    /\ render_tasks = 0
    /\ call = OtherCall("init")
    /\ history = NoGesture
    /\ ruler = RulerDefault
    /\ dialog = None
    /\ filesystem = InitialFiles

\* Time passes between two draws.
DrawTick ==
    /\ clock < MaxDrawTime
    /\ clock' = clock + DrawTickMs
    /\ call' = OtherCall("tick")
    /\ UNCHANGED <<state, pens_config, tool_vars, laser_store, store_strokes, camera,
                   document, animation, render_tasks, history, ruler, dialog, filesystem>>

\* Tools::draw_on_doc under the Laser style: LaserTool::draw_on_doc.
DrawOnDocStep ==
    /\ pens_config.style = "Laser"
    /\ call' = [OtherCall("draw_on_doc") EXCEPT !.now = clock,
                                                !.drawn = DrawOnDoc(laser_store, clock)]
    /\ UNCHANGED <<state, pens_config, tool_vars, laser_store, store_strokes, camera,
                   document, animation, clock, render_tasks, history, ruler, dialog, filesystem>>

NextDraw ==
    \/ DrawTick
    \/ DrawOnDocStep

SpecDraw == InitDraw /\ [][NextDraw]_vars

-----------------------------------------------------------------------------
(* SpecBounds: gestures under all four styles with the wall clock running,    *)
(* and bounds_on_doc called at any time.  Every event carries the same        *)
(* element, at the origin; the re-renders sent stay in flight.                *)

BoundsElements == {Element(<<0, 0>>, 1)}

\* Tools::bounds_on_doc is called by the renderer.
BoundsOnDocStep ==
    /\ call' = [OtherCall("bounds_on_doc") EXCEPT !.now = clock, !.bounds = BoundsOnDoc]
    /\ UNCHANGED <<state, pens_config, tool_vars, laser_store, store_strokes, camera,
                   document, animation, clock, render_tasks, history, ruler, dialog, filesystem>>

InitBounds == InitWith(ToolStyles, {FALSE}, {FALSE}, {CameraDefault})

NextBounds ==
    \/ TimedPenEventStep(BoundsElements, MaxBoundsEvents)
    \/ SetStyle(ToolStyles)
    \/ Tick
    \/ BoundsOnDocStep

SpecBounds == InitBounds /\ [][NextBounds]_vars

-----------------------------------------------------------------------------
(* SpecRuler: the ruler is dragged and rotated.                               *)

DragComponents == {0 - OffsetUnit \div 2, 0, OffsetUnit \div 4, OffsetUnit,
                   OffsetUnit + OffsetUnit \div 2}

\* The angles asked for: multiples of AngleStep, and the angle stored.
RulerAngles == {k * AngleStep : k \in (0 - MaxAngleSteps)..MaxAngleSteps}

\* ToolHolder::drag: the call goes to the ruler.
ToolHolderDrag ==
    \E offset \in DragComponents \X DragComponents :
        LET r == Drag(ruler, offset)
        IN  /\ ruler' = r.ruler
            /\ call' = [OtherCall("drag") EXCEPT !.arg = Some(offset),
                                                 !.widget_flags = r.widget_flags]
            /\ UNCHANGED <<state, pens_config, tool_vars, laser_store, store_strokes,
                           camera, document, animation, clock, render_tasks, history, dialog, filesystem>>

\* ToolHolder::set_angle: the call goes to the ruler.
ToolHolderSetAngle ==
    \E angle \in RulerAngles \cup {ruler.angle} :
        LET r == SetAngle(ruler, angle)
        IN  /\ ruler' = r.ruler
            /\ call' = [OtherCall("set_angle") EXCEPT !.arg = Some(angle),
                                                      !.widget_flags = r.widget_flags]
            /\ UNCHANGED <<state, pens_config, tool_vars, laser_store, store_strokes,
                           camera, document, animation, clock, render_tasks, history, dialog, filesystem>>

\* The ruler is drawn: Ruler::format_angle yields its angle label.
RulerFormatAngle ==
    /\ call' = [OtherCall("format_angle") EXCEPT !.label = Some(FormatAngle(ruler))]
    /\ UNCHANGED <<state, pens_config, tool_vars, laser_store, store_strokes, camera,
                   document, animation, clock, render_tasks, history, ruler, dialog, filesystem>>

NextRuler ==
    \/ ToolHolderDrag
    \/ ToolHolderSetAngle
    \/ RulerFormatAngle

InitRuler == InitWith({"Laser"}, {FALSE}, {FALSE}, {CameraDefault})

SpecRuler == InitRuler /\ [][NextRuler]_vars

-----------------------------------------------------------------------------
(* SpecFolder: the create-folder dialog is opened, typed into and applied    *)
(* while other programs create and remove folders.                            *)

\* new_folder_action activated: with a workspace selected the dialog is built,
\* its apply button insensitive, and popped up.
CreateFolderActivate ==
    /\ IF dialog = None THEN TRUE ELSE ~dialog[1].popover_visible
    /\ \E parent_path \in {None, Some(WorkspacePath)} :
          IF IsSome(parent_path)
          THEN /\ dialog' = Some([parent_path |-> parent_path[1],
                                   entry_text |-> [absolute |-> FALSE, parts |-> <<>>],
                                   apply_sensitive |-> FALSE,
                                   entry_error |-> FALSE,
                                   popover_visible |-> TRUE])
               /\ call' = OtherCall("activate")
          ELSE /\ dialog' = dialog
               /\ call' = [OtherCall("activate") EXCEPT !.logged = <<"warn">>]
    /\ UNCHANGED <<state, pens_config, tool_vars, laser_store, store_strokes, camera,
                   document, animation, clock, render_tasks, history, ruler, filesystem>>

EntryChangedIfEmpty ==
    /\ IsSome(dialog) /\ dialog[1].popover_visible
    /\ \E text \in FolderNames \ {dialog[1].entry_text} :
          LET refused == IsEmpty(text)
          IN  dialog' = Some([dialog[1] EXCEPT !.entry_text = text,
                                               !.apply_sensitive = ~refused,
                                               !.entry_error = refused])
    /\ call' = OtherCall("entry_changed")
    /\ UNCHANGED <<state, pens_config, tool_vars, laser_store, store_strokes, camera,
                   document, animation, clock, render_tasks, history, ruler, filesystem>>

\* folder_name_entry changed: the handler connected by connect_changed.
EntryChanged ==
    /\ IsSome(dialog) /\ dialog[1].popover_visible
    /\ \E text \in FolderNames \ {dialog[1].entry_text} :
          LET new_folder_path == Join(dialog[1].parent_path, text)
              refused == new_folder_path \in filesystem \/ IsEmpty(text)
          IN  dialog' = Some([dialog[1] EXCEPT !.entry_text = text,
                                               !.apply_sensitive = ~refused,
                                               !.entry_error = refused])
    /\ call' = OtherCall("entry_changed")
    /\ UNCHANGED <<state, pens_config, tool_vars, laser_store, store_strokes, camera,
                   document, animation, clock, render_tasks, history, ruler, filesystem>>

ApplyClickedUnchecked ==
    /\ IsSome(dialog) /\ dialog[1].popover_visible /\ dialog[1].apply_sensitive
    /\ LET new_folder_path == Join(dialog[1].parent_path, dialog[1].entry_text)
       IN  \E made \in (IF new_folder_path \in filesystem
                         THEN {[ok |-> FALSE, files |-> filesystem]}
                         ELSE DirCreate(filesystem, new_folder_path)) :
                /\ filesystem' = made.files
                /\ dialog' = Some([dialog[1] EXCEPT !.popover_visible = FALSE])
                /\ call' = [OtherCall("apply_clicked") EXCEPT
                                !.attempts = <<[path |-> new_folder_path, ok |-> made.ok]>>,
                                !.logged = IF made.ok THEN <<>> ELSE <<"error">>]
    /\ UNCHANGED <<state, pens_config, tool_vars, laser_store, store_strokes, camera,
                   document, animation, clock, render_tasks, history, ruler>>

\* apply_button clicked: the handler connected by connect_apply_button.
ApplyClicked ==
    /\ IsSome(dialog) /\ dialog[1].popover_visible /\ dialog[1].apply_sensitive
    /\ LET new_folder_path == Join(dialog[1].parent_path, dialog[1].entry_text)
       IN  IF new_folder_path \in filesystem
           THEN /\ call' = [OtherCall("apply_clicked") EXCEPT !.logged = <<"error">>]
                /\ UNCHANGED <<dialog, filesystem>>
           ELSE \E made \in DirCreate(filesystem, new_folder_path) :
                   /\ filesystem' = made.files
                   /\ dialog' = Some([dialog[1] EXCEPT !.popover_visible = FALSE])
                   /\ call' = [OtherCall("apply_clicked") EXCEPT
                                   !.attempts = <<[path |-> new_folder_path, ok |-> made.ok]>>,
                                   !.logged = IF made.ok THEN <<>> ELSE <<"error">>]
    /\ UNCHANGED <<state, pens_config, tool_vars, laser_store, store_strokes, camera,
                   document, animation, clock, render_tasks, history, ruler>>

\* Another program creates or removes a folder of the workspace.
FilesystemChange ==
    /\ \E path \in VolatileFiles :
          filesystem' = IF path \in filesystem
                        THEN {f \in filesystem :
                                 ~(Len(f) >= Len(path) /\ SubSeq(f, 1, Len(path)) = path)}
                        ELSE filesystem \cup {path}
    /\ call' = OtherCall("filesystem_change")
    /\ UNCHANGED <<state, pens_config, tool_vars, laser_store, store_strokes, camera,
                   document, animation, clock, render_tasks, history, ruler, dialog>>

NextFolder ==
    \/ CreateFolderActivate
    \/ EntryChanged
    \/ ApplyClicked
    \/ FilesystemChange

InitFolder == InitWith({"Laser"}, {FALSE}, {FALSE}, {CameraDefault})

SpecFolder == InitFolder /\ [][NextFolder]_vars

-----------------------------------------------------------------------------
(* Properties *)

\* The last step was a call of Tools::handle_event.
Handled == call.op = "handle_event"

RECURSIVE SumSeq(_)
\* The sum of the numbers of a sequence.
SumSeq(q) == IF q = <<>> THEN 0 ELSE q[1] + SumSeq(Tail(q))

\* C1: from Idle a Down event, under any style, moves the state to Active and no
\* other event does; from Active, Up and Cancel move the state to Idle, and
\* Down, Proximity, KeyPressed and Text leave it Active.
C1_StateTransitions ==
    Handled =>
        /\ call.state_before = "Idle" =>
              IF call.event.kind = "Down" THEN state = "Active" ELSE state = "Idle"
        /\ call.state_before = "Active" =>
              IF call.event.kind \in {"Up", "Cancel"}
              THEN state = "Idle"
              ELSE state = "Active"

C1_Witness ==
    /\ Handled /\ call.state_before = "Active" /\ call.event.kind = "Cancel"
    /\ call.style = "Zoom" /\ state = "Idle"

\* C2: the EventResult of handle_event is determined by the state before the
\* call and the kind of the event: Idle+Down and Active+Down are handled / Stop /
\* InProgress, Active+Up and Active+Cancel handled / Stop / Finished, Idle with any
\* other event not handled / Proceed / Idle, Active with Proximity, KeyPressed or
\* Text not handled / Proceed / InProgress.
C2_ResultTable ==
    Handled =>
        call.result =
            CASE call.event.kind = "Down" ->
                    [handled |-> TRUE, propagate |-> "Stop", progress |-> "InProgress"]
              [] call.state_before = "Idle" ->
                    [handled |-> FALSE, propagate |-> "Proceed", progress |-> "Idle"]
              [] call.event.kind \in {"Up", "Cancel"} ->
                    [handled |-> TRUE, propagate |-> "Stop", progress |-> "Finished"]
              [] OTHER ->
                    [handled |-> FALSE, propagate |-> "Proceed", progress |-> "InProgress"]

C2_Witness ==
    /\ Handled /\ call.state_before = "Active" /\ call.event.kind = "Cancel"
    /\ call.style = "VerticalSpace"
    /\ call.result = [handled |-> TRUE, propagate |-> "Stop", progress |-> "Finished"]

\* C3: stroke_update_time is the `now` of the last new_stroke or update call
\* (every such call sets it, nothing else changes it), and is_faded() returns
\* false when less than 1500 ms have passed since then and true otherwise.
C3_IsFadedAfter1500 ==
    [][/\ call'.op \in {"new_stroke", "update"} =>
             laser_store'.stroke_update_time = call'.now
       /\ call'.op \notin {"new_stroke", "update"} =>
             laser_store'.stroke_update_time = laser_store.stroke_update_time
       /\ call'.op = "is_faded" =>
             call'.faded = Some(clock - laser_store.stroke_update_time >= 1500)]_vars

C3_Witness ==
    /\ call.op = "is_faded" /\ call.faded = Some(TRUE)
    /\ clock - laser_store.stroke_update_time = 1500
    /\ laser_store.stroke_update_time > 0

\* A Down handled in Idle under the Laser style: the call of new_stroke.
LaserDown(c) ==
    /\ c.op = "handle_event" /\ c.style = "Laser"
    /\ c.state_before = "Idle" /\ c.event.kind = "Down"

\* C4: new_stroke on an unfaded store keeps every prior path and appends one new
\* path; on a fully faded store it leaves exactly the one new path; no other
\* step (update, Up, Cancel, reset, animation frame) removes a path.
C4_NewStrokeClearsOnlyWhenFaded ==
    [][LET old == laser_store.stroke_paths
           new == laser_store'.stroke_paths
       IN  IF LaserDown(call')
           THEN IF clock - laser_store.stroke_update_time >= 1500
                THEN new = << <<call'.event.element>> >>
                ELSE new = Append(old, <<call'.event.element>>)
           ELSE Len(new) = Len(old)]_vars

\* A Down on a faded store that held two paths: only the new path is left.
C4_Witness ==
    /\ LaserDown(call) /\ call.paths_before = 2
    /\ laser_store.stroke_paths = << <<call.event.element>> >>

\* C5: update with the in-progress variant sets stroke_update_time to `now`, so
\* that the store is unfaded right after, and leaves the paths as they were.
C5_InProgressRefreshesTime ==
    [][(call'.op = "handle_event" /\ call'.progress.kind = "InProgress") =>
           /\ laser_store'.stroke_update_time = call'.now
           /\ clock' - laser_store'.stroke_update_time < 1500
           /\ laser_store'.stroke_paths = laser_store.stroke_paths]_vars

C5_Witness ==
    /\ Handled /\ call.progress.kind = "InProgress"
    /\ laser_store.stroke_update_time = call.now /\ call.now > 0
    /\ Len(laser_store.stroke_paths) = 2

\* C6: update with emit-continue or finished segments appends the segments, in
\* order, to the last path and leaves the earlier paths unchanged; on a store
\* without paths it changes no path; in every case stroke_update_time becomes `now`.
C6_SegmentsGoToLastPath ==
    [][(call'.op = "update" /\ call'.progress.kind \in {"EmitContinue", "Finished"}) =>
           LET old == laser_store.stroke_paths
               new == laser_store'.stroke_paths
               n == Len(old)
           IN  /\ Len(new) = n
               /\ \A i \in 1..n :
                     new[i] = IF i = n THEN old[i] \o call'.progress.segments ELSE old[i]
               /\ laser_store'.stroke_update_time = call'.now]_vars

C6_Witness ==
    /\ call.op = "update" /\ call.progress.kind = "EmitContinue"
    /\ Len(call.progress.segments) = 2
    /\ Len(laser_store.stroke_paths) = 2
    /\ Len(laser_store.stroke_paths[1]) = 1 /\ Len(laser_store.stroke_paths[2]) = 3
    /\ laser_store.stroke_update_time = call.now /\ call.now > 0

\* C7: handle_animation_frame claims another frame if and only if the laser
\* store is not fully faded at the time of the call.
C7_FrameClaimedIffUnfaded ==
    call.op = "handle_animation_frame" =>
        /\ call.claim_frame <=> clock - laser_store.stroke_update_time < 1500
        /\ animation.frame_claimed = call.claim_frame

C7_Witness ==
    /\ call.op = "handle_animation_frame" /\ ~call.claim_frame
    /\ laser_store.stroke_paths # <<>>
    /\ clock - laser_store.stroke_update_time = 1500

\* C8: a frame polled before 1500 ms have passed since the last store mutation
\* claims the next frame and a frame polled later claims none; once no frame is
\* claimed, none is claimed until the next pen event; and when no further pen
\* event arrives, the animation loop goes idle: from some point on no frame is
\* claimed any more.
C8_AnimationGoesIdle ==
    /\ [][call'.op = "handle_animation_frame" =>
             (animation'.frame_claimed <=>
                  clock - laser_store.stroke_update_time < 1500)]_vars
    /\ [][(~animation.frame_claimed /\ call'.op # "handle_event") =>
             ~animation'.frame_claimed]_vars
    /\ (<>[][call'.op # "handle_event"]_vars => <>[](~animation.frame_claimed))

C8_Witness ==
    /\ call.op = "handle_animation_frame" /\ ~animation.frame_claimed
    /\ laser_store.stroke_paths # <<>>
    /\ clock - laser_store.stroke_update_time >= 1500

\* A Down handled in Active under the Zoom style: a Zoom continue event.
ZoomContinue(c) ==
    /\ c.op = "handle_event" /\ c.style = "Zoom"
    /\ c.state_before = "Active" /\ c.event.kind = "Down"

\* A Down handled under the Zoom style, whether it started or continued a gesture.
ZoomDown(c) == c.op = "handle_event" /\ c.style = "Zoom" /\ c.event.kind = "Down"

SpaceContinue(c) ==
    /\ c.op = "handle_event" /\ c.style = "VerticalSpace"
    /\ c.state_before = "Active" /\ c.event.kind = "Down"

\* C10: a VerticalSpace continue event whose candidate y offset has magnitude at
\* most 0.1 units translates no stroke and no cached image, leaves the tracked
\* current y unchanged and returns widget flags without store_modified.
C10_SmallOffsetIsDropped ==
    [][(/\ SpaceContinue(call')
        /\ Abs(VerticalSpaceYOffset(verticalspace_tool, call'.event.element)) <= 1) =>
           /\ store_strokes' = store_strokes
           /\ verticalspace_tool'.pos_y = verticalspace_tool.pos_y
           /\ ~call'.widget_flags.store_modified]_vars

\* The pointer is 0.1 units below the tracked y, 30 units below the start, and
\* the strokes captured by the gesture stay 30 units below their first place.
C10_Witness ==
    /\ SpaceContinue(call) /\ ~call.widget_flags.store_modified
    /\ ~document.snap_positions
    /\ call.event.element.pos[2] - verticalspace_tool.pos_y = 1
    /\ verticalspace_tool.pos_y - verticalspace_tool.start_pos_y = 300
    /\ 2 \in verticalspace_tool.strokes_below
    /\ store_strokes[2].y = InitialStrokes[2].y + 300
    /\ store_strokes[2].image_y = InitialStrokes[2].image_y + 300

\* C11: throughout a VerticalSpace gesture the tracked current y is the start y
\* plus the sum of the offsets applied so far, and every stroke captured by the
\* gesture, with its cached image, lies that sum below where it was when the
\* gesture started.
C11_TrackedYIsStartPlusOffsets ==
    (state = "Active" /\ pens_config.style = "VerticalSpace") =>
        LET sum == SumSeq(history.offsets)
        IN  /\ verticalspace_tool.pos_y = verticalspace_tool.start_pos_y + sum
            /\ \A k \in history.captured :
                  /\ store_strokes[k].y = history.strokes[k].y + sum
                  /\ store_strokes[k].image_y = history.strokes[k].image_y + sum

\* Down at y = 100, continue at y = 130, continue at y = 130.3, no grid snap:
\* the captured strokes lie 30.3 units lower.
C11_Witness ==
    /\ SpaceContinue(call) /\ state = "Active" /\ ~document.snap_positions
    /\ verticalspace_tool.start_pos_y = 1000
    /\ history.offsets = <<300, 3>>
    /\ 2 \in history.captured
    /\ store_strokes[2].y = history.strokes[2].y + 303

\* A Down or an Up handled in Active under the Laser style.
LaserGestureEvent(c) ==
    /\ c.op = "handle_event" /\ c.style = "Laser"
    /\ c.state_before = "Active" /\ c.event.kind \in {"Down", "Up"}

\* C12: in a Laser gesture the Down adds exactly one path, holding the Down
\* point (after the paths that were there, or alone); every later continue or Up
\* event of the gesture, the builder being present, keeps the number of paths,
\* appends the segments the builder emitted to the last path and to no other;
\* each of these events sets stroke_update_time to its timestamp, and the store
\* is unfaded right after it.
C12_LaserGesture ==
    [][LET old == laser_store.stroke_paths
           new == laser_store'.stroke_paths
           n == Len(old)
           stamped == /\ laser_store'.stroke_update_time = call'.now
                      /\ clock' - laser_store'.stroke_update_time < 1500
       IN  /\ LaserDown(call') =>
                 /\ new \in {Append(old, <<call'.event.element>>),
                             << <<call'.event.element>> >>}
                 /\ stamped
           /\ (LaserGestureEvent(call') /\ laser_tool.path_builder # <<>>) =>
                 /\ Len(new) = n
                 /\ \A i \in 1..n :
                       new[i] = IF i = n THEN old[i] \o call'.progress.segments ELSE old[i]
                 /\ stamped]_vars

\* One Down and a continue event for which the builder emitted two segments: the
\* second of two paths has three points.
C12_Witness ==
    /\ LaserGestureEvent(call) /\ call.event.kind = "Down"
    /\ call.progress.kind = "EmitContinue" /\ Len(call.progress.segments) = 2
    /\ Len(laser_store.stroke_paths) = 2
    /\ Len(laser_store.stroke_paths[1]) = 1 /\ Len(laser_store.stroke_paths[2]) = 3
    /\ laser_store.stroke_update_time = call.now /\ call.now = 750

\* An Up or a Cancel handled in Active: the end of a gesture.
GestureEnd(c) ==
    /\ c.op = "handle_event" /\ c.state_before = "Active"
    /\ c.event.kind \in {"Up", "Cancel"}

\* C13: after an Up or a Cancel handled in Active the state is Idle and every
\* field of the gesture struct of the configured style holds its default: for
\* VerticalSpace start y, current y, the clamp range and the set of affected
\* strokes, for OffsetCamera the start, for Zoom start and current, for Laser
\* the builder, which is absent.
C13_ResetZeroesEveryField ==
    GestureEnd(call) =>
        /\ state = "Idle"
        /\ call.style = "VerticalSpace" =>
              verticalspace_tool = [start_pos_y |-> 0, pos_y |-> 0,
                                    limit_x |-> <<>>, strokes_below |-> {}]
        /\ call.style = "OffsetCamera" => offsetcamera_tool = [start |-> <<0, 0>>]
        /\ call.style = "Zoom" =>
              zoom_tool = [start_surface_coord |-> <<0, 0>>,
                           current_surface_coord |-> <<0, 0>>]
        /\ call.style = "Laser" => laser_tool = [path_builder |-> <<>>]

\* C14: the path builder of the Laser tool is present only while a gesture is in
\* progress: in every state, whatever style changes came between the events, a
\* present builder implies the Active state (the builder is absent in Idle).
C14_BuilderOnlyWhileActive ==
    laser_tool.path_builder # <<>> => state = "Active"

\* An Up handled in Active under the VerticalSpace style.
SpaceUp(c) ==
    /\ c.op = "handle_event" /\ c.style = "VerticalSpace"
    /\ c.state_before = "Active" /\ c.event.kind = "Up"

\* C15: the set of affected strokes of a VerticalSpace gesture is the one its
\* starting Down captured: a continue event leaves the set as it is, the strokes
\* it translates (and no others move) are exactly that set, and the geometry
\* recompute of the Up is given exactly that set.
C15_AffectedSetIsCapturedOnce ==
    [][/\ SpaceContinue(call') =>
             /\ verticalspace_tool'.strokes_below = verticalspace_tool.strokes_below
             /\ verticalspace_tool'.strokes_below = history.captured
             /\ call'.translate # <<>> => call'.translate[1][1] = history.captured
             /\ \A k \in StrokeKeys :
                   store_strokes'[k] # store_strokes[k] =>
                       (k \in history.captured /\ call'.translate # <<>>)
             /\ call'.translate # <<>> =>
                   \A k \in history.captured : store_strokes'[k] # store_strokes[k]
       /\ SpaceUp(call') => call'.geometry = <<history.captured>>]_vars

\* With both border limits on, the gesture captured stroke 2 alone; it was moved
\* 30 units down and the Up recomputes the geometry of stroke 2 alone.
C15_Witness ==
    /\ SpaceUp(call) /\ call.geometry = <<{2}>>
    /\ pens_config.limit_movement_vertical_borders
    /\ pens_config.limit_movement_horizontal_borders
    /\ store_strokes[2].y = InitialStrokes[2].y + 300
    /\ store_strokes[3] = InitialStrokes[3] /\ store_strokes[4] = InitialStrokes[4]

\* C16: a persistence checkpoint is recorded exactly by an Up handled in Active
\* under the VerticalSpace style, and with it the geometry of the affected
\* strokes is recomputed and store_modified is set; no Down, continue or Cancel
\* event, and no Up under OffsetCamera, Zoom or Laser, records one.
C16_CheckpointOnlyOnVerticalSpaceUp ==
    Handled =>
        /\ call.checkpoint <=>
              (/\ call.state_before = "Active" /\ call.event.kind = "Up"
               /\ call.style = "VerticalSpace")
        /\ call.checkpoint =>
              (call.geometry # <<>> /\ call.widget_flags.store_modified)
        /\ call.geometry # <<>> => call.checkpoint

C16_Witness ==
    /\ Handled /\ call.checkpoint /\ call.event.kind = "Up"
    /\ call.style = "VerticalSpace" /\ call.state_before = "Active"
    /\ call.geometry = <<{1, 2, 3, 4}>> /\ call.widget_flags.store_modified
    /\ state = "Idle"

\* C17: a Cancel handled in Active does, under every style, what an Up does
\* except for the checkpoint: it requests the document auto-expand (its flags
\* are in the returned widget flags), schedules a viewport re-render, records no
\* checkpoint, resets the gesture data of the configured style and leaves the
\* state Idle; it requests an animation frame exactly when the style is Laser.
C17_CancelCleansUp ==
    (Handled /\ call.state_before = "Active" /\ call.event.kind = "Cancel") =>
        /\ call.widget_flags.resize
        /\ call.rerender /\ render_tasks > 0
        /\ ~call.checkpoint /\ call.geometry = <<>>
        /\ state = "Idle"
        /\ call.style = "VerticalSpace" =>
              (verticalspace_tool.start_pos_y = 0 /\ verticalspace_tool.pos_y = 0)
        /\ call.style = "OffsetCamera" => offsetcamera_tool.start = <<0, 0>>
        /\ call.style = "Zoom" =>
              /\ zoom_tool.start_surface_coord = <<0, 0>>
              /\ zoom_tool.current_surface_coord = <<0, 0>>
        /\ call.style = "Laser" => laser_tool.path_builder = <<>>
        /\ call.claim_frame <=> call.style = "Laser"
        /\ call.claim_frame => animation.frame_claimed

\* A Laser gesture is cancelled: the builder is gone, the paths stay, a frame is
\* claimed.
C17_Witness ==
    /\ Handled /\ call.state_before = "Active" /\ call.event.kind = "Cancel"
    /\ call.style = "Laser" /\ call.claim_frame /\ animation.frame_claimed
    /\ call.paths_before = 1 /\ Len(laser_store.stroke_paths) = 1
    /\ laser_tool.path_builder = <<>> /\ state = "Idle" /\ render_tasks = 1

\* An Up handled in Active under the Laser style.
LaserUp(c) ==
    /\ c.op = "handle_event" /\ c.style = "Laser"
    /\ c.state_before = "Active" /\ c.event.kind = "Up"

\* C18, as stated: whenever an Up is handled in Active under the Laser style,
\* the event is forwarded to the builder, the resulting segments are flushed
\* into the laser store (which stamps it with the event's time), and one more
\* animation frame is requested.
C18_LaserUpAlwaysFlushes ==
    LaserUp(call) =>
        /\ call.progress.kind = "Finished"
        /\ laser_store.stroke_update_time = call.now
        /\ call.claim_frame /\ animation.frame_claimed

\* C18, amended: when an Up is handled in Active under the Laser style and a
\* path builder is present, the event is forwarded to the builder, the segments
\* it finishes with are appended to the last path of the store, stamped with
\* the event's time, and one more animation frame is requested; when no builder
\* is present, the store is left as it is and no frame is requested.
C18_LaserUpFlushesIfBuilder ==
    [][LaserUp(call') =>
           LET old == laser_store.stroke_paths
               new == laser_store'.stroke_paths
               n == Len(old)
           IN  IF laser_tool.path_builder # <<>>
               THEN /\ call'.progress.kind = "Finished"
                    /\ Len(new) = n
                    /\ \A i \in 1..n :
                          new[i] = IF i = n
                                   THEN old[i] \o call'.progress.segments
                                   ELSE old[i]
                    /\ laser_store'.stroke_update_time = call'.now
                    /\ call'.claim_frame /\ animation'.frame_claimed
               ELSE /\ laser_store' = laser_store
                    /\ ~call'.claim_frame
                    /\ animation' = animation]_vars

\* The Up flushes the element the builder held back and its own: a path of
\* three points, and a frame is claimed.
C18_Witness ==
    /\ LaserUp(call) /\ call.progress.kind = "Finished"
    /\ Len(call.progress.segments) = 2
    /\ Len(laser_store.stroke_paths) = 1 /\ Len(laser_store.stroke_paths[1]) = 3
    /\ call.claim_frame /\ animation.frame_claimed
    /\ laser_tool.path_builder = <<>> /\ state = "Idle"

\* C19: laser content is not retained past full transparency: once the store is
\* fully faded, the paths it then holds are never drawn with an opacity above 0
\* again: the next step either is the Down of a new stroke, which discards
\* them, or leaves every stroke drawn at opacity 0.
C19_FadedPathsStayInvisible ==
    [][(/\ clock - laser_store.stroke_update_time >= 1500
        /\ laser_store.stroke_paths # <<>>) =>
           IF LaserDown(call')
           THEN laser_store'.stroke_paths = << <<call'.event.element>> >>
           ELSE \A d \in DrawOnDoc(laser_store', clock') : d.opacity = 0]_vars

\* C20: the viewport re-render scheduled by a VerticalSpace continue, an Up or a
\* Cancel is sent and not waited for: when handle_event returns, the re-render
\* is in flight with those sent before it, and the fields of Tools are already
\* updated (the tracked y moved by the applied offset, the state Idle after Up
\* and Cancel); and the completion of a re-render, wherever it falls between
\* the events, changes neither a field of Tools nor anything handle_event
\* reads, so that the Tools state after a sequence of events is the same for
\* every interleaving of the completions.
C20_RerenderIsFireAndForget ==
    [][/\ (call'.op = "handle_event" /\ call'.rerender) =>
             /\ render_tasks' = render_tasks + 1
             /\ (SpaceContinue(call') \/ GestureEnd(call'))
       /\ (SpaceContinue(call') /\ call'.translate # <<>>) =>
             /\ call'.rerender
             /\ verticalspace_tool'.pos_y = verticalspace_tool.pos_y + call'.translate[1][2]
       /\ GestureEnd(call') => (call'.rerender /\ state' = "Idle")
       /\ render_tasks' < render_tasks =>
             /\ UNCHANGED <<state, verticalspace_tool, offsetcamera_tool, zoom_tool,
                            laser_tool>>
             /\ UNCHANGED <<pens_config, laser_store, camera, document, animation>>
             /\ \A k \in StrokeKeys :
                   /\ store_strokes'[k].x = store_strokes[k].x
                   /\ store_strokes'[k].y = store_strokes[k].y]_vars

\* Two continue events each applied an offset and scheduled a re-render; one
\* re-render was completed before the second event, whose own is in flight.
C20_Witness ==
    /\ SpaceContinue(call) /\ call.rerender /\ call.translate # <<>>
    /\ history.offsets = <<300, 3>>
    /\ verticalspace_tool.pos_y = 1303
    /\ render_tasks = 1

-----------------------------------------------------------------------------
\* A call of handle_event that falls into an arm doing nothing: any event but
\* Down in Idle, and Proximity, KeyPressed or Text in Active.
Unhandled(c) ==
    /\ c.op = "handle_event"
    /\ \/ c.state_before = "Idle" /\ c.event.kind # "Down"
       \/ c.state_before = "Active" /\ c.event.kind \in {"Proximity", "KeyPressed", "Text"}

\* C21: an event that is not handled is a no-op: the state, the four gesture
\* structs, the laser store, the camera, the document and the strokes are
\* unchanged, the widget flags returned are the default ones, and neither an
\* animation frame nor a re-render is requested.
C21_UnhandledEventsAreNoOps ==
    [][Unhandled(call') =>
          /\ UNCHANGED <<state, tool_vars, laser_store, camera, document,
                         store_strokes, animation, render_tasks>>
          /\ ~call'.result.handled
          /\ call'.widget_flags = WidgetFlagsDefault
          /\ ~call'.claim_frame
          /\ ~call'.rerender]_vars

\* A Text event arrives in the middle of a Laser gesture, whose builder and
\* path are left as they were.
C21_Witness ==
    /\ Unhandled(call)
    /\ call.state_before = "Active" /\ call.event.kind = "Text"
    /\ call.style = "Laser"
    /\ state = "Active"
    /\ IsSome(laser_tool.path_builder)
    /\ laser_store.stroke_paths # <<>>

-----------------------------------------------------------------------------
\* C22: a call of handle_event, the reset of an Up or a Cancel included, writes
\* at most the gesture struct of the style configured at that call: the structs
\* of the three other styles are unchanged.
C22_OnlyConfiguredStyleIsWritten ==
    [][call'.op = "handle_event" =>
          /\ call'.style # "VerticalSpace" => UNCHANGED verticalspace_tool
          /\ call'.style # "OffsetCamera" => UNCHANGED offsetcamera_tool
          /\ call'.style # "Zoom" => UNCHANGED zoom_tool
          /\ call'.style # "Laser" => UNCHANGED laser_tool]_vars

\* A gesture started under Laser ends under Zoom: the reset of that Up has left
\* the laser tool's builder where it was.
C22_Witness ==
    /\ GestureEnd(call)
    /\ call.event.kind = "Up"
    /\ call.style = "Zoom"
    /\ state = "Idle"
    /\ zoom_tool = ZoomToolDefault
    /\ IsSome(laser_tool.path_builder)

-----------------------------------------------------------------------------
\* C23: a VerticalSpace continue event whose pointer y is less than 10 units
\* away from the start y snaps back to the start: after it the tracked current
\* y is the start y, and every stroke captured by the gesture, with its cached
\* image, is where it was when the gesture started.
C23_SnapBackToStart ==
    [][(/\ SpaceContinue(call')
        /\ Abs(call'.event.element.pos[2] - verticalspace_tool.start_pos_y) < 100) =>
           /\ verticalspace_tool'.pos_y = verticalspace_tool'.start_pos_y
           /\ SumSeq(history'.offsets) = 0
           /\ \A k \in history'.captured :
                 /\ store_strokes'[k].y = history'.strokes[k].y
                 /\ store_strokes'[k].image_y = history'.strokes[k].image_y]_vars

\* Down at y = 130, continue at y = 100 (30 units up), continue at y = 130.3:
\* the pointer is 0.3 units from the start and the 30 units are taken back.
C23_Witness ==
    /\ SpaceContinue(call)
    /\ call.event.element.pos[2] = 1303
    /\ verticalspace_tool.start_pos_y = 1300
    /\ verticalspace_tool.pos_y = 1300
    /\ history.offsets = <<-300, 300>>
    /\ 2 \in history.captured
    /\ store_strokes[2].y = InitialStrokes[2].y
    /\ call.widget_flags.store_modified

-----------------------------------------------------------------------------
\* C24: a zoom within [ZOOM_MIN, ZOOM_MAX] before a continue event of a Zoom
\* gesture is within [ZOOM_MIN, ZOOM_MAX] after it, wherever the pointer is:
\* started in range, a Zoom gesture never takes the camera out of range.
C24_ZoomStaysInRange ==
    [][(/\ ZoomContinue(call')
        /\ camera.zoom >= ZOOM_MIN /\ camera.zoom <= ZOOM_MAX) =>
           /\ camera'.zoom >= ZOOM_MIN
           /\ camera'.zoom <= ZOOM_MAX]_vars

\* At ZOOM_MAX the pointer is dragged up, towards a larger zoom: the event is
\* refused and the zoom stays at ZOOM_MAX.
C24_Witness ==
    /\ ZoomContinue(call)
    /\ call.surface[2] < zoom_tool.start_surface_coord[2]
    /\ call.widget_flags = WidgetFlagsDefault
    /\ camera.zoom = ZOOM_MAX
    /\ zoom_tool.current_surface_coord = call.surface

-----------------------------------------------------------------------------
\* C25: the opacity the laser strokes are drawn with is 255 * (1 - min(1,
\* elapsed / 1500 ms)) rounded to the nearest integer, elapsed being the time
\* since stroke_update_time: an integer in 0..255, 255 at elapsed 0, 0 from 1500
\* ms on, never larger at a later time while the store is not written; every
\* path is stroked twice, outer and inner, with that one opacity.
C25_LaserOpacity ==
    [][/\ call'.op = "draw_on_doc" =>
             LET elapsed == clock' - laser_store'.stroke_update_time
                 paths == laser_store'.stroke_paths
                 exact == 255 * (1500 - (IF elapsed < 1500 THEN elapsed ELSE 1500))
             IN  /\ \A i \in 1..Len(paths), layer \in {"outer", "inner"} :
                        \E d \in call'.drawn : d.path = paths[i] /\ d.layer = layer
                 /\ \A d \in call'.drawn :
                        /\ d.opacity \in 0..255
                        /\ 2 * Abs(1500 * d.opacity - exact) <= 1500
                        /\ elapsed = 0 => d.opacity = 255
                        /\ elapsed >= 1500 => d.opacity = 0
                 /\ \A d1, d2 \in call'.drawn : d1.opacity = d2.opacity
       /\ (laser_store' = laser_store /\ clock' >= clock) =>
             Opacity(laser_store', clock') <= Opacity(laser_store, clock)]_vars

\* Two paths drawn 2100 ms after the last update: four strokes, all at opacity 0.
C25_Witness ==
    /\ call.op = "draw_on_doc"
    /\ call.now = 2100
    /\ call.now - laser_store.stroke_update_time = 2100
    /\ Len(laser_store.stroke_paths) = 2
    /\ Cardinality(call.drawn) = 4
    /\ \A d \in call.drawn : d.opacity = 0

-----------------------------------------------------------------------------
\* C26: drag clamps, it never refuses: after every drag each component of the
\* ruler offset is the component asked for clamped to [0, 1], hence within
\* [0, 1], and the flags returned ask for a redraw.
C26_DragClamps ==
    [][call'.op = "drag" =>
          /\ \A i \in 1..2 :
                LET asked == call'.arg[1][i]
                IN  /\ ruler'.offset[i] >= 0 /\ ruler'.offset[i] <= 1000
                    /\ ruler'.offset[i] =
                          (IF asked < 0 THEN 0 ELSE IF asked > 1000 THEN 1000 ELSE asked)
          /\ call'.widget_flags.redraw]_vars

\* drag((1.5, -0.5)) on a rotated ruler puts it at (1, 0).
C26_Witness ==
    /\ call.op = "drag"
    /\ call.arg = Some(<<1500, -500>>)
    /\ ruler.offset = <<1000, 0>>
    /\ ruler.angle # 0
    /\ call.widget_flags.redraw

\* C27: set_angle normalises, it never refuses: after set_angle(a) the angle
\* stored is a whole number n of degrees with |n| < 180, n being the remainder,
\* with the sign of a, of a rounded to whole degrees divided by 180; set_angle
\* of the stored angle leaves it as it is; the flags returned ask for a redraw.
C27_SetAngleNormalises ==
    [][call'.op = "set_angle" =>
          LET a == call'.arg[1]
              whole == ToDegreesRounded(a)
          IN  /\ \E n \in -179..179 :
                    /\ ruler'.angle = ToRadians(n)
                    /\ (whole - n) % 180 = 0
                    /\ a >= 0 => n >= 0
                    /\ a <= 0 => n <= 0
              /\ a = ruler.angle => ruler'.angle = ruler.angle
              /\ SetAngle(ruler', ruler'.angle).ruler = ruler'
              /\ call'.widget_flags.redraw]_vars

\* set_angle of 214.5 degrees stores 35 degrees, then set_angle of the stored
\* angle is asked for.
C27_Witness ==
    /\ call.op = "set_angle"
    /\ ruler.angle = ToRadians(35)
    /\ call.arg = Some(ruler.angle)
    /\ ruler.offset # RulerDefault.offset

-----------------------------------------------------------------------------
\* C28: bounds_on_doc yields no bounds when the state is Idle and the style is
\* not Laser; under the Laser style, whatever the state, it yields the laser
\* bounds: absent when the store is fully faded or holds no path, and
\* otherwise a box around every point of every path.
C28_BoundsOnDoc ==
    call.op = "bounds_on_doc" =>
        /\ (state = "Idle" /\ pens_config.style # "Laser") => call.bounds = None
        /\ pens_config.style = "Laser" =>
              LET paths == laser_store.stroke_paths
                  faded == clock - laser_store.stroke_update_time >= 1500
              IN  /\ (faded \/ paths = <<>>) => call.bounds = None
                  /\ ~(faded \/ paths = <<>>) =>
                        /\ IsSome(call.bounds)
                        /\ \A i \in 1..Len(paths) : \A j \in 1..Len(paths[i]) :
                              \A c \in 1..2 :
                                 /\ call.bounds[1].mins[c] < paths[i][j].pos[c]
                                 /\ call.bounds[1].maxs[c] > paths[i][j].pos[c]

\* The gesture is over and its strokes are still fading: under the Laser style
\* the Idle state yields their bounds.
C28_Witness ==
    /\ call.op = "bounds_on_doc"
    /\ state = "Idle" /\ pens_config.style = "Laser"
    /\ laser_store.stroke_paths # <<>>
    /\ clock - laser_store.stroke_update_time = 750
    /\ call.bounds = Some(Aabb(<<-60, -60>>, <<60, 60>>))

-----------------------------------------------------------------------------
\* A Cancel handled in Active under the Laser style.
LaserCancel(c) ==
    /\ c.op = "handle_event" /\ c.style = "Laser"
    /\ c.state_before = "Active" /\ c.event.kind = "Cancel"

\* C29: a Cancel handled during a Laser gesture leaves the laser store as it
\* is, paths, points and stroke_update_time; nothing is taken from the builder,
\* which is dropped.
C29_LaserCancelKeepsStore ==
    [][LaserCancel(call') =>
          /\ laser_store' = laser_store
          /\ call'.progress = NoProgress
          /\ laser_tool'.path_builder = None]_vars

\* Down at 0 ms, a continue at 750 ms, then the Cancel at 1500 ms: the store
\* still has the time of the continue.
C29_Witness ==
    /\ LaserCancel(call)
    /\ call.now = 1500
    /\ laser_store.stroke_paths # <<>>
    /\ laser_store.stroke_update_time = 750
    /\ laser_tool.path_builder = None
    /\ state = "Idle"

-----------------------------------------------------------------------------
\* C30: between two writes of the laser store fading is monotone:
\* stroke_update_time changes in new_stroke and update only, and a store that is
\* faded (1500 ms or more since stroke_update_time) stays faded, is_faded
\* returning true, until the next new_stroke or update.
C30_FadingIsMonotone ==
    [][call'.op \notin {"new_stroke", "update"} =>
          LET faded == clock - laser_store.stroke_update_time >= 1500
              faded_after == clock' - laser_store'.stroke_update_time >= 1500
          IN  /\ laser_store'.stroke_update_time = laser_store.stroke_update_time
              /\ faded => faded_after
              /\ (faded /\ call'.op = "is_faded") => call'.faded = Some(TRUE)
              /\ (call.op = "is_faded" /\ call.faded = Some(TRUE)
                     /\ call'.op = "is_faded") => call'.faded = Some(TRUE)]_vars

\* is_faded returns true 2250 ms after the last update of a store with two
\* paths, as it did from 1500 ms on.
C30_Witness ==
    /\ call.op = "is_faded"
    /\ call.faded = Some(TRUE)
    /\ clock - laser_store.stroke_update_time = 2250
    /\ Len(laser_store.stroke_paths) = 2

-----------------------------------------------------------------------------
\* C31: a continue or an Up handled under the Laser style while the laser tool
\* has no path builder (the gesture was started under another style) leaves the
\* laser store, paths and stroke_update_time, as it is and requests no
\* animation frame; the event is reported as handled all the same.
C31_LaserWithoutBuilder ==
    [][(/\ call'.op = "handle_event" /\ call'.style = "Laser"
        /\ call'.state_before = "Active" /\ call'.event.kind \in {"Down", "Up"}
        /\ laser_tool.path_builder = None) =>
           /\ laser_store' = laser_store
           /\ call'.progress = NoProgress
           /\ ~call'.claim_frame
           /\ animation' = animation
           /\ call'.result.handled
           /\ call'.result.propagate = "Stop"]_vars

\* A gesture started under OffsetCamera goes on under Laser 750 ms later: the
\* continue event finds no builder and the store stays empty.
C31_Witness ==
    /\ call.op = "handle_event" /\ call.style = "Laser"
    /\ call.state_before = "Active" /\ call.event.kind = "Down"
    /\ call.now = 750
    /\ state = "Active"
    /\ laser_tool.path_builder = None
    /\ laser_store = LaserStoreDefault(0)
    /\ ~animation.frame_claimed
    /\ call.result = EventResult(TRUE, "Stop", "InProgress")

-----------------------------------------------------------------------------
\* The number a string of decimal digits stands for.
RECURSIVE ParseDecimal(_)
ParseDecimal(digits) ==
    IF digits = <<>> THEN 0
    ELSE 10 * ParseDecimal(SubSeq(digits, 1, Len(digits) - 1)) + digits[Len(digits)]

\* C32: the angle label of the ruler is an integer between 0 and 90 inclusive
\* for every stored angle: the angle rounded to whole degrees, a negative value
\* taken as 0, modulo 180, and 180 minus that when it is above 90.
C32_AngleLabel ==
    call.op = "format_angle" =>
        LET digits == call.label[1]
            value == ParseDecimal(digits)
            whole == ToDegreesRounded(ruler.angle)
            folded == (IF whole < 0 THEN 0 ELSE whole) % 180
        IN  /\ Len(digits) \in 1..2
            /\ \A i \in 1..Len(digits) : digits[i] \in 0..9
            /\ Len(digits) = 2 => digits[1] # 0
            /\ value >= 0 /\ value <= 90
            /\ value = (IF folded > 90 THEN 180 - folded ELSE folded)

\* A ruler at 137 degrees is labelled "43".
C32_Witness ==
    /\ call.op = "format_angle"
    /\ ruler.angle = ToRadians(137)
    /\ call.label = Some(<<4, 3>>)

-----------------------------------------------------------------------------
\* The path the dialog would create: the text of the entry joined to the parent.
NewFolderPath(d) ==
    IF d.entry_text.absolute THEN d.entry_text.parts ELSE d.parent_path \o d.entry_text.parts

\* C33: the apply button of the create-folder dialog starts insensitive; after
\* every change of the entry it is sensitive if and only if the name entered is
\* not empty and nothing exists at parent/name at that moment; and the entry
\* has the error style exactly when a change left the button insensitive:
\* not before the first change, and nothing but a change touches either.
C33_ApplyButtonFollowsEntry ==
    [][/\ (call'.op = "activate" /\ call'.logged = <<>>) =>
             /\ ~dialog'[1].apply_sensitive
             /\ ~dialog'[1].entry_error
       /\ call'.op = "entry_changed" =>
             LET d == dialog'[1]
                 named == d.entry_text.absolute \/ d.entry_text.parts # <<>>
             IN  /\ d.apply_sensitive <=> (named /\ NewFolderPath(d) \notin filesystem')
                 /\ d.entry_error <=> ~d.apply_sensitive
       /\ (call'.op \notin {"activate", "entry_changed"} /\ IsSome(dialog)) =>
             /\ dialog'[1].apply_sensitive = dialog[1].apply_sensitive
             /\ dialog'[1].entry_error = dialog[1].entry_error]_vars

\* "notes" is entered after another program removed workspace/notes: the
\* button is sensitive and the entry has no error style.
C33_Witness ==
    /\ call.op = "entry_changed"
    /\ dialog[1].entry_text.parts = <<"notes">>
    /\ NewFolderPath(dialog[1]) \notin filesystem
    /\ NewFolderPath(dialog[1]) \in InitialFiles
    /\ dialog[1].apply_sensitive
    /\ ~dialog[1].entry_error

\* C34: a click on apply never tries to create a folder at a path that exists
\* at the time of the click, even one that appeared after the last change of
\* the entry: it then logs an error, creates nothing and leaves the popover
\* open; otherwise it tries the creation exactly once and closes the popover,
\* whether or not the creation succeeded.
C34_ApplyChecksAgain ==
    [][call'.op = "apply_clicked" =>
          LET path == NewFolderPath(dialog[1])
          IN  IF path \in filesystem
              THEN /\ call'.attempts = <<>>
                   /\ call'.logged = <<"error">>
                   /\ filesystem' = filesystem
                   /\ dialog'[1].popover_visible
              ELSE /\ Len(call'.attempts) = 1
                   /\ call'.attempts[1].path = path
                   /\ call'.attempts[1].ok <=> path \in filesystem'
                   /\ ~dialog'[1].popover_visible]_vars

\* "drafts" was free when entered and workspace/drafts exists at the click:
\* an error is logged, nothing is tried and the popover is still open.
C34_Witness ==
    /\ call.op = "apply_clicked"
    /\ dialog[1].entry_text.parts = <<"drafts">>
    /\ dialog[1].apply_sensitive
    /\ NewFolderPath(dialog[1]) \in filesystem
    /\ call.attempts = <<>>
    /\ call.logged = <<"error">>
    /\ dialog[1].popover_visible

====
